---- MODULE Spec2Model ----
(***************************************************************************)
(* Chat session store (models/index.ts, services/chatService.ts), AI       *)
(* service (services/aiService.ts) and realtime coordinator                *)
(* (utils/index.ts) of the chat backend, as a state machine.               *)
(*                                                                         *)
(* A stored chat is a MongoDB document.  Every service function loads the  *)
(* document (findOne), changes its local copy and saves it; the save sends *)
(* the changed paths only: an array push as $push, a changed scalar as     *)
(* $set, filtered by _id alone.  Each await of the code is a point where   *)
(* other calls and handlers run, so it is a separate step here.            *)
(***************************************************************************)
EXTENDS Integers, Sequences, FiniteSets, TLC

\* ---------------------------------------------------------------- bounds
MaxClock == 2          \* the clock (ms) runs over 0..MaxClock
MaxTickedLen == 2      \* SpecSeq: the clock advances while fewer messages are stored
MaxLeaves == 1         \* leave_chat events served in a run
MaxTyping == 1         \* typing events served in a run

Users == {"u1", "u2"}
ChatIds == {"c1", "c2"}
ProcIds == {"p1", "p2", "p3"}
SocketIds == {"s1", "s2"}

\* ------------------------------------------------------ program constants
MessageLimit == 1000
MaxTextLength == 5000
MaxTitleLength == 100
DefaultHistoryLimit == 50

ChatTopic == {"health", "education"}
AIModel == {"gpt-4", "claude-3", "mistral", "composio"}

VARIABLES
  clock,     \* Date.now(), in ms
  nextOid,   \* the ObjectIds generated so far
  chats,     \* the chats collection: chat id -> stored document
  procs,     \* the calls in flight: each one's position, arguments, local document
  appended,  \* per chat, the addMessageToChat calls that returned the chat so far
  socks,     \* the sockets: state, socket.userId, socket.rooms
  activeSessions,  \* the map socket id -> user id
  events     \* the events emitted so far, in order, each with its receivers

rtvars == <<socks, activeSessions, events>>

vars == <<clock, nextOid, chats, procs, appended, socks, activeSessions, events>>

\* ------------------------------------------------------------- text
RECURSIVE TrimLeft(_)
TrimLeft(s) == IF s # <<>> /\ Head(s) = " " THEN TrimLeft(Tail(s)) ELSE s

RECURSIVE TrimRight(_)
TrimRight(s) ==
  IF s # <<>> /\ s[Len(s)] = " " THEN TrimRight(SubSeq(s, 1, Len(s) - 1)) ELSE s

\* a trim that removes nothing
TrimNothing(s) == s

\* String.prototype.trim
Trim(s) == TrimRight(TrimLeft(s))

RECURSIVE Join(_, _)
\* Array.prototype.join: the items separated by sep
Join(items, sep) ==
  IF items = <<>> THEN <<>>
  ELSE IF Len(items) = 1 THEN <<items[1]>>
  ELSE <<items[1], sep>> \o Join(Tail(items), sep)

\* a text of n characters
LongText(n) == [i \in 1..n |-> "x"]

\* ------------------------------------------------------------- documents
\* the facts about the user that a chat keeps: none
NoUserInfo == [name |-> "", interests |-> <<>>, goals |-> <<>>, preferences |-> <<>>]

\* sessionContext is the map of the chat, its entries <<key, value>> in the
\* order in which they were set
NoChat ==
  [created |-> FALSE, userId |-> "none", title |-> <<>>, topics |-> <<>>,
   messages |-> <<>>, isActive |-> FALSE, lastMessageAt |-> 0,
   userInfo |-> NoUserInfo, sessionContext |-> <<>>]

\* a findOne that matched nothing
NoDoc ==
  [found |-> FALSE, title |-> <<>>, isActive |-> FALSE, lastMessageAt |-> 0,
   topics |-> <<>>, messages |-> <<>>, npushed |-> 0,
   ltitle |-> <<>>, lisActive |-> FALSE, llastMessageAt |-> 0]

NoMessage ==
  [messageId |-> <<"none", 0>>, timestamp |-> 0, sender |-> "none",
   text |-> <<>>, aiModel |-> "none"]

\* the document as a query hands it to the caller; l* is the loaded value of a
\* path, against which save() decides what changed
LoadDoc(chat) ==
  [found |-> TRUE, title |-> chat.title, isActive |-> chat.isActive,
   lastMessageAt |-> chat.lastMessageAt, topics |-> chat.topics,
   messages |-> chat.messages, npushed |-> 0,
   ltitle |-> chat.title, lisActive |-> chat.isActive,
   llastMessageAt |-> chat.lastMessageAt]

\* a query that leaves the status out: {_id: chatId, userId}
FindOneInactive(store, chatId, userId) ==
  IF /\ chatId \in DOMAIN store
     /\ store[chatId].created
     /\ store[chatId].userId = userId
  THEN LoadDoc(store[chatId])
  ELSE NoDoc

\* a query that leaves the owner out: {_id: chatId, isActive: true}
FindOneAnyUser(store, chatId, userId) ==
  IF /\ chatId \in DOMAIN store
     /\ store[chatId].created
     /\ store[chatId].isActive
  THEN LoadDoc(store[chatId])
  ELSE NoDoc

\* Chat.findById(chatId)
FindById(store, chatId) ==
  IF chatId \in DOMAIN store /\ store[chatId].created
  THEN LoadDoc(store[chatId])
  ELSE NoDoc

\* the query {_id: chatId, userId, isActive: true}
FindOne(store, chatId, userId) ==
  IF /\ chatId \in DOMAIN store
     /\ store[chatId].created
     /\ store[chatId].userId = userId
     /\ store[chatId].isActive
  THEN LoadDoc(store[chatId])
  ELSE NoDoc

findChatWithMessages(store, chatId, userId) == FindOne(store, chatId, userId)

\* ChatMessageSchema: text required, trimmed, at most 5000; sender user or ai;
\* aiModel of the enum, required when the sender is ai
ValidMessage(m) ==
  /\ m.text # <<>>
  /\ Len(m.text) <= MaxTextLength
  /\ m.sender \in {"user", "ai"}
  /\ m.aiModel \in AIModel \cup {"none"}
  /\ (m.sender = "ai" => m.aiModel # "none")

\* ChatSchema.methods.addMessage up to save(): the new message gets the time
\* and a fresh ObjectId, is pushed on the local array, lastMessageAt follows
addMessage(doc, draft, now, oid) ==
  LET newMessage ==
        [messageId |-> <<"oid", oid>>, timestamp |-> now, sender |-> draft.sender,
         text |-> Trim(draft.text), aiModel |-> draft.aiModel]
  IN [doc EXCEPT !.messages = Append(@, newMessage),
                 !.npushed = @ + 1,
                 !.lastMessageAt = now]

\* ChatSchema.pre('save')
preSave(doc) ==
  IF Len(doc.messages) > 0
  THEN [doc EXCEPT !.lastMessageAt = doc.messages[Len(doc.messages)].timestamp]
  ELSE doc

Pushed(doc) ==
  SubSeq(doc.messages, Len(doc.messages) - doc.npushed + 1, Len(doc.messages))

\* a schema without the validator of the messages path
ValidationErrorNoLimit(doc) ==
  IF \E i \in 1..Len(Pushed(doc)) : ~ValidMessage(Pushed(doc)[i]) THEN "invalid"
  ELSE IF doc.title # doc.ltitle /\ Len(doc.title) > MaxTitleLength THEN "invalid"
  ELSE "none"

\* save() validates the modified paths of the local document
ValidationError(doc) ==
  IF doc.npushed > 0 /\ Len(doc.messages) > MessageLimit THEN "limit"
  ELSE IF \E i \in 1..Len(Pushed(doc)) : ~ValidMessage(Pushed(doc)[i]) THEN "invalid"
  ELSE IF doc.title # doc.ltitle /\ Len(doc.title) > MaxTitleLength THEN "invalid"
  ELSE "none"

\* a save that writes the whole local array: {$set: {messages: [...]}}
SaveMessagesWhole(stored, doc) == doc.messages

\* a $push with $position 0: the pushed items go in front
SaveMessagesFront(stored, doc) == Pushed(doc) \o stored

\* a save that is sent again: the pushed items are stored twice
SaveMessagesTwice(stored, doc) == stored \o Pushed(doc) \o Pushed(doc)

\* what save() sends for the messages path: the pushed items, as a $push
SaveMessages(stored, doc) == stored \o Pushed(doc)

\* a save that writes every path of the local document
SaveScalarAlways(stored, local, loaded) == local

\* a save that sends the pushed messages only
SaveScalarNever(stored, local, loaded) == stored

\* what save() sends for a scalar path: a $set when the local value differs
\* from the loaded one, nothing otherwise
SaveScalar(stored, local, loaded) == IF local # loaded THEN local ELSE stored

\* a save that replaces the stored document by the paths the caller changes,
\* owner and topics not among them
saveReplace(chat, doc0) ==
  [created |-> TRUE, userId |-> "none", title |-> doc0.title, topics |-> <<>>,
   messages |-> doc0.messages, isActive |-> doc0.isActive,
   lastMessageAt |-> doc0.lastMessageAt,
   userInfo |-> chat.userInfo, sessionContext |-> chat.sessionContext]

\* save(): the pre-save hook, then one atomic update of the stored document
save(chat, doc0) ==
  LET doc == preSave(doc0)
  IN [chat EXCEPT
        !.messages = SaveMessages(@, doc),
        !.lastMessageAt = SaveScalar(@, doc.lastMessageAt, doc.llastMessageAt),
        !.title = SaveScalar(@, doc.title, doc.ltitle),
        !.isActive = SaveScalar(@, doc.isActive, doc.lisActive)]

\* ChatSchema.methods.getMessageHistory: slice(-limit), then a stable sort by
\* timestamp.  slice(-0) is slice(0): the whole array.
SliceLast(msgs, limit) ==
  LET n == Len(msgs)
      start == IF limit > 0 THEN (IF n - limit > 0 THEN n - limit ELSE 0)
               ELSE IF -limit < n THEN -limit ELSE n
  IN SubSeq(msgs, start + 1, n)

RECURSIVE InsertByTime(_, _)
InsertByTime(sorted, m) ==
  IF sorted = <<>> THEN <<m>>
  ELSE IF sorted[Len(sorted)].timestamp <= m.timestamp THEN Append(sorted, m)
  ELSE Append(InsertByTime(SubSeq(sorted, 1, Len(sorted) - 1), m), sorted[Len(sorted)])

RECURSIVE SortByTime(_)
SortByTime(msgs) ==
  IF msgs = <<>> THEN <<>>
  ELSE InsertByTime(SortByTime(SubSeq(msgs, 1, Len(msgs) - 1)), msgs[Len(msgs)])

getMessageHistory(msgs, limit) == SortByTime(SliceLast(msgs, limit))

\* ------------------------------------------------------------- calls
\* an AIResponse; thrown says that the call threw instead of returning
NoResult ==
  [success |-> FALSE, text |-> <<>>, model |-> "none", error |-> "none", thrown |-> FALSE]

NoDraft == [sender |-> "none", text |-> <<>>, aiModel |-> "none"]

IdleProc ==
  [pc |-> "idle", op |-> "none", chatId |-> "none", userId |-> "none",
   draft |-> NoDraft, newTitle |-> <<>>, limit |-> 0,
   doc |-> NoDoc, msg |-> NoMessage, res |-> "none", hist |-> <<>>,
   base |-> 0,   \* addMessageToChat: the messages its findOne saw
   pos |-> 0,    \* addMessageToChat: the stored length right after its update
   entry |-> <<>>,      \* storeContext: key and value
   seen |-> <<>>,       \* addMessageToChat: the title its findOne saw
   sock |-> "none",     \* the socket whose event this handler serves
   text |-> <<>>,       \* message handler: data.text
   topics |-> <<>>,     \* message handler: chat.topics
   phase |-> "none",    \* message handler: saving the user message or the AI message
   ures |-> "none",     \* message handler: how addMessageToChat ended for the user message
   ares |-> "none",     \* message handler: how it ended for the AI message
   ai |-> "none",       \* message handler: how generateAIResponse ended
   inRoom |-> FALSE,    \* message handler: its socket was in the room when the event came
   preferred |-> "none",  \* generateAIResponse: preferredModel
   backend |-> "none",    \* generateAIResponse: what the OpenAI API did
   prompt |-> [context |-> <<>>, message |-> <<>>],  \* the prompt given to the model
   called |-> <<>>,       \* generateAIResponse: the model functions it called
   gen |-> NoResult,      \* generateAIResponse: what it returned
   list |-> <<>>,         \* getUserChats: the ids of the chats it returned
   memory |-> <<>>]       \* the SessionMemoryService functions this call invoked

\* the calls of p that ended
Done(p) == procs[p].pc = "done"

\* the call slots are taken in order: the next call gets the first free one
ProcOrder == <<"p1", "p2", "p3">>

Free(p) ==
  /\ procs[p].pc = "idle"
  /\ \A i, j \in 1..Len(ProcOrder) :
        (ProcOrder[j] = p /\ i < j) => procs[ProcOrder[i]].pc # "idle"

\* the call of p returns (or throws) res to its caller
Return(p, res) ==
  [procs EXCEPT ![p].pc = "done", ![p].res = res, ![p].doc = NoDoc,
                ![p].pos = IF res = "ok" /\ procs[p].pc = "add_save"
                           THEN Len(chats[procs[p].chatId].messages) + procs[p].doc.npushed
                           ELSE @]

\* ------------------------------------------------------------- clock
Tick ==
  /\ clock < MaxClock
  /\ clock' = clock + 1
  /\ UNCHANGED <<nextOid, chats, procs, appended, rtvars>>

\* ------------------------------------------------------------- createChat
\* createChat: the topics are checked, the title defaults to the topics joined
\* by ' & ' followed by ' Chat', and the document is inserted
\* a createChat that checks nothing
ValidTopicsAny(topics) == TRUE

ValidTopics(topics) ==
  /\ Len(topics) > 0
  /\ Len(topics) <= 2
  /\ \A i \in 1..Len(topics) : topics[i] \in ChatTopic

\* the default of the schema: 'Chat ' and the date
DatedTitle(topics) == <<"Chat">> \o [i \in 1..clock |-> "day"]

DefaultTitle(topics) == Join(topics, "&") \o <<"Chat">>

createNewChat(userId, topics, title, now) ==
  [created |-> TRUE, userId |-> userId,
   title |-> Trim(IF title # <<>> THEN title ELSE DefaultTitle(topics)),
   topics |-> topics, messages |-> <<>>, isActive |-> TRUE, lastMessageAt |-> now,
   userInfo |-> NoUserInfo, sessionContext |-> <<>>]

createChat(c, u, topics, title) ==
  /\ ~chats[c].created
  /\ ValidTopics(topics)
  /\ chats' = [chats EXCEPT ![c] =
        createNewChat(u, topics, IF title # <<>> THEN title ELSE DefaultTitle(topics), clock)]
  /\ UNCHANGED <<clock, nextOid, procs, appended, rtvars>>

\* the id that the next inserted chat gets
ChatOrder == <<"c1", "c2">>

NewChatId ==
  IF \A c \in ChatIds : chats[c].created THEN "none"
  ELSE ChatOrder[CHOOSE i \in 1..Len(ChatOrder) :
         /\ ~chats[ChatOrder[i]].created
         /\ \A j \in 1..(i - 1) : chats[ChatOrder[j]].created]

\* createChat(userId, chatData) up to the await of Chat.createNewChat: invalid
\* topics throw; else the title is chosen and the document constructed
CreateCall(p, u, topics, title) ==
  /\ Free(p)
  /\ LET call == [IdleProc EXCEPT !.op = "create", !.userId = u, !.topics = topics,
                                  !.newTitle = title]
         chat == createNewChat(u, topics,
                   IF title # <<>> THEN title ELSE DefaultTitle(topics), clock)
     IN procs' = [procs EXCEPT ![p] =
          IF ~ValidTopics(topics)
          THEN [call EXCEPT !.pc = "done", !.res = "invalid_topics"]
          ELSE [call EXCEPT !.pc = "create_save",
                  !.doc = [NoDoc EXCEPT !.title = chat.title, !.topics = chat.topics,
                             !.isActive = chat.isActive,
                             !.lastMessageAt = chat.lastMessageAt]]]
  /\ UNCHANGED <<clock, nextOid, chats, appended, rtvars>>

\* chat.save() of the new document: validated, then inserted
CreateSave(p, up) ==
  /\ procs[p].pc = "create_save"
  /\ NewChatId # "none"
  /\ IF ~up
     THEN /\ procs' = Return(p, "error")
          /\ UNCHANGED chats
     ELSE IF Len(procs[p].doc.title) > MaxTitleLength
     THEN /\ procs' = Return(p, "invalid")
          /\ UNCHANGED chats
     ELSE /\ chats' = [chats EXCEPT ![NewChatId] =
               [created |-> TRUE, userId |-> procs[p].userId,
                title |-> procs[p].doc.title, topics |-> procs[p].doc.topics,
                messages |-> <<>>, isActive |-> TRUE,
                lastMessageAt |-> procs[p].doc.lastMessageAt,
                userInfo |-> NoUserInfo, sessionContext |-> <<>>]]
          /\ procs' = [Return(p, "ok") EXCEPT ![p].chatId = NewChatId]
  /\ UNCHANGED <<clock, nextOid, appended, rtvars>>

\* ------------------------------------------------------------- sockets
\* token is the kind of token of the handshake
NoSocket == [state |-> "new", userId |-> "none", rooms |-> {}, token |-> "none"]

\* an event as it was emitted: to is the set of sockets it was delivered to,
\* by the handler that emitted it, origin the socket of that handler; stored and
\* res say what addMessageToChat did with the message the event carries
NoEvent ==
  [type |-> "none", to |-> {}, by |-> "none", origin |-> "none", chatId |-> "none",
   code |-> "none", msg |-> NoMessage, stored |-> NoMessage, res |-> "none"]

Open(s) == socks[s].state = "open"

\* socket.emit: to the socket itself, while it is connected
ToSocket(s) == IF s \in SocketIds /\ Open(s) THEN {s} ELSE {}

\* io.to(room): the connected sockets of the room
ToRoom(c) == {s \in SocketIds : Open(s) /\ c \in socks[s].rooms}

\* socket.to(room): the room without the sender
ToOthers(s, c) == ToRoom(c) \ {s}

\* the error emitted to the room instead of the socket
ErrorEventToRoom(p, s, c, code) ==
  [NoEvent EXCEPT !.type = "error", !.to = ToSocket(s) \cup ToRoom(procs[p].chatId),
                  !.by = p, !.origin = s, !.chatId = c, !.code = code]

\* an error that is logged and not emitted
ErrorLogged(p, s, c, code) ==
  [NoEvent EXCEPT !.type = "log", !.by = p, !.origin = s, !.chatId = c, !.code = code]

ErrorEvent(p, s, c, code) ==
  [NoEvent EXCEPT !.type = "error", !.to = ToSocket(s), !.by = p, !.origin = s,
                  !.chatId = c, !.code = code]

\* the message the handler broadcasts: the draft with timestamp new Date() and
\* messageId new Date().getTime().toString()
WithTimestamp(draft, now) ==
  [messageId |-> <<"ms", now>>, timestamp |-> now, sender |-> draft.sender,
   text |-> draft.text, aiModel |-> draft.aiModel]

MessageEvent(p, res) ==
  [NoEvent EXCEPT !.type = "message", !.to = ToRoom(procs[p].chatId), !.by = p,
                  !.origin = procs[p].sock, !.chatId = procs[p].chatId,
                  !.msg = WithTimestamp(procs[p].draft, clock),
                  !.stored = IF res = "ok" THEN procs[p].msg ELSE NoMessage,
                  !.res = res]

ThinkingEvent(p) ==
  [NoEvent EXCEPT !.type = "ai_thinking", !.to = ToSocket(procs[p].sock), !.by = p,
                  !.origin = procs[p].sock, !.chatId = procs[p].chatId]

\* ------------------------------------------------------------- generateAIResponse
FallbackText == <<"s", "o", "r", "r", "y">>

\* the OpenAI call without the try/catch around it
callGPT4NoCatch(backend) ==
  IF backend = "ok"
  THEN [NoResult EXCEPT !.success = TRUE, !.text = <<"o", "k", " ">>, !.model = "gpt-4"]
  ELSE [NoResult EXCEPT !.model = "gpt-4", !.error = backend, !.thrown = TRUE]

\* callGPT4: the completion, or a failure result with the error of the API
callGPT4(backend) ==
  IF backend = "ok"
  THEN [NoResult EXCEPT !.success = TRUE, !.text = <<"o", "k", " ">>, !.model = "gpt-4"]
  ELSE [NoResult EXCEPT !.model = "gpt-4", !.error = backend]

\* callClaude3, callMistral, callComposio: no API key
callDisabled(model) ==
  [NoResult EXCEPT !.model = model, !.error = "not configured"]

selectModel(topics) == "gpt-4"

\* const selectedModel = preferredModel || selectModel(topics)
selectedModel(topics, preferredModel) ==
  IF preferredModel # "none" THEN preferredModel ELSE selectModel(topics)

\* the model functions that generateAIResponse calls, in the order of the calls
modelsCalled(topics, preferredModel) == <<selectedModel(topics, preferredModel)>>

\* the first five messages instead of the last five
RecentMessagesFirst(msgs) == SubSeq(msgs, 1, IF Len(msgs) < 5 THEN Len(msgs) ELSE 5)

\* chat.messages.slice(-5)
RecentMessages(msgs) == SliceLast(msgs, 5)

\* context.trim(), on a text held as its lines: the empty lines at its start
\* go (no text of buildContextForAI ends with one)
TrimLines(lines) ==
  IF lines # <<>> /\ Head(lines) = <<"">> THEN Tail(lines) ELSE lines

\* SessionMemoryService.buildContextForAI: the text as its lines; '' for no
\* chat or an error.  The chat is found by its id alone.
buildContextForAI(store, up, chatId) ==
  IF ~up \/ chatId \notin ChatIds THEN <<>>
  ELSE IF ~store[chatId].created THEN <<>>
  ELSE LET chat == store[chatId]
           userInfo == chat.userInfo
           recentMessages == RecentMessages(chat.messages)
           name == IF userInfo.name # "" THEN << <<"User's name", userInfo.name>> >> ELSE <<>>
           interests == IF userInfo.interests # <<>>
                        THEN << <<"User's interests", Join(userInfo.interests, ",")>> >>
                        ELSE <<>>
           goals == IF userInfo.goals # <<>>
                    THEN << <<"User's goals", Join(userInfo.goals, ",")>> >> ELSE <<>>
           prefs == IF userInfo.preferences # <<>>
                    THEN << <<"User's preferences", Join(userInfo.preferences, ",")>> >>
                    ELSE <<>>
           session == IF chat.sessionContext # <<>>
                      THEN << <<"Session context:">> >> \o
                           [i \in 1..Len(chat.sessionContext) |->
                              <<"-", chat.sessionContext[i][1], chat.sessionContext[i][2]>>]
                      ELSE <<>>
           recent == IF chat.messages # <<>>
                     THEN << <<"">>, <<"Recent conversation:">> >> \o
                          [i \in 1..Len(recentMessages) |->
                             <<recentMessages[i].sender, recentMessages[i].text>>]
                     ELSE <<>>
       IN TrimLines(name \o interests \o goals \o prefs \o session \o recent)

\* the prompt that generateAIResponse hands to the model function
enhancedPrompt(prompt, sessionContext) ==
  [context |-> sessionContext, message |-> prompt]

\* generateAIResponse: the selected model is called once; its failure gives the
\* fixed failure result; nothing catches what the model function throws
generateAIResponse(topics, preferredModel, backend) ==
  LET model == selectedModel(topics, preferredModel)
      response == IF model = "gpt-4" THEN callGPT4(backend)
                  ELSE callDisabled(model)
  IN IF response.thrown THEN response
     ELSE IF response.success THEN response
     ELSE [NoResult EXCEPT !.text = FallbackText, !.model = "gpt-4",
                           !.error = "AI model unavailable"]

\* ------------------------------------------------------------- addMessageToChat
\* a caller invokes addMessageToChat(chatId, userId, message)
CallAdd(p, c, u, d) ==
  /\ Free(p)
  /\ procs' = [procs EXCEPT ![p] =
        [IdleProc EXCEPT !.pc = "add_find", !.op = "add", !.chatId = c,
                         !.userId = u, !.draft = d]]
  /\ UNCHANGED <<clock, nextOid, chats, appended, rtvars>>

\* addMessageToChat returns to its caller (res = "ok") or throws res.  The message
\* handler catches what it throws and goes on either way: after the user message
\* it broadcasts the message to the room, tells the origin that the AI is
\* thinking and calls generateAIResponse; after the AI message it broadcasts it.
AddReturn(p, res) ==
  IF procs[p].op # "message"
  THEN /\ procs' = Return(p, res)
       /\ UNCHANGED events
  ELSE IF procs[p].phase = "user"
  THEN /\ procs' = [procs EXCEPT ![p].pc = "ai_call", ![p].ures = res, ![p].doc = NoDoc]
       /\ events' = events \o <<MessageEvent(p, res), ThinkingEvent(p)>>
  ELSE /\ procs' = [Return(p, "sent") EXCEPT ![p].ares = res]
       /\ events' = Append(events, MessageEvent(p, res))

\* await Chat.findOne({_id, userId, isActive: true}); no chat: throw
AddFind(p, up) ==
  /\ procs[p].pc = "add_find"
  /\ LET doc == FindOne(chats, procs[p].chatId, procs[p].userId)
     IN IF ~up THEN AddReturn(p, "error")
        ELSE IF ~doc.found THEN AddReturn(p, "notfound")
        ELSE /\ procs' = [procs EXCEPT ![p].pc = "add_msg", ![p].doc = doc,
                                       ![p].base = Len(doc.messages),
                                       ![p].seen = doc.title]
             /\ UNCHANGED events
  /\ UNCHANGED <<clock, nextOid, chats, appended, socks, activeSessions>>

\* chat.addMessage(message) up to the update that save() sends: the message
\* is stamped and pushed, the local document validated
AddMsg(p) ==
  /\ procs[p].pc = "add_msg"
  /\ LET doc == addMessage(procs[p].doc, procs[p].draft, clock, nextOid)
         err == ValidationError(doc)
     IN IF err # "none" THEN AddReturn(p, err)
        ELSE /\ procs' = [procs EXCEPT ![p].pc = "add_save", ![p].doc = doc,
                                       ![p].msg = doc.messages[Len(doc.messages)]]
             /\ UNCHANGED events
  /\ nextOid' = nextOid + 1
  /\ UNCHANGED <<clock, chats, appended, socks, activeSessions>>

\* the update of save() is applied by the database, or fails; its answer is
\* still on the way to the caller
AddApply(p, up) ==
  /\ procs[p].pc = "add_save"
  /\ IF up
     THEN /\ chats' = [chats EXCEPT ![procs[p].chatId] = save(@, procs[p].doc)]
          /\ appended' = [appended EXCEPT ![procs[p].chatId] = @ + 1]
          /\ procs' = [procs EXCEPT ![p].pc = "add_ack", ![p].doc = NoDoc,
                                    ![p].pos = Len(chats[procs[p].chatId].messages)
                                                 + procs[p].doc.npushed]
          /\ UNCHANGED events
     ELSE /\ AddReturn(p, "error")
          /\ UNCHANGED <<chats, appended>>
  /\ UNCHANGED <<clock, nextOid, socks, activeSessions>>

\* the answer of the update arrives: await chat.addMessage(message) resumes
AddAck(p) ==
  /\ procs[p].pc = "add_ack"
  /\ AddReturn(p, "ok")
  /\ UNCHANGED <<clock, nextOid, chats, appended, socks, activeSessions>>

\* an update that is filtered by the owner instead of the _id: it reaches
\* every chat of the user
AddSaveAll(p, up) ==
  /\ procs[p].pc = "add_save"
  /\ IF up
     THEN /\ chats' = [c \in ChatIds |->
               IF chats[c].created /\ chats[c].userId = procs[p].userId
               THEN save(chats[c], procs[p].doc) ELSE chats[c]]
          /\ appended' = [appended EXCEPT ![procs[p].chatId] = @ + 1]
          /\ AddReturn(p, "ok")
     ELSE /\ AddReturn(p, "error")
          /\ UNCHANGED <<chats, appended>>
  /\ UNCHANGED <<clock, nextOid, socks, activeSessions>>

\* the update of save() reaches the database and its answer the caller, with
\* no step of another call between the two
AddSave(p, up) ==
  /\ procs[p].pc = "add_save"
  /\ IF up
     THEN /\ chats' = [chats EXCEPT ![procs[p].chatId] = save(@, procs[p].doc)]
          /\ appended' = [appended EXCEPT ![procs[p].chatId] = @ + 1]
          /\ AddReturn(p, "ok")
     ELSE /\ AddReturn(p, "error")
          /\ UNCHANGED <<chats, appended>>
  /\ UNCHANGED <<clock, nextOid, socks, activeSessions>>

\* ------------------------------------------------------------- updateChatTitle
CallTitle(p, c, u, t) ==
  /\ Free(p)
  /\ procs' = [procs EXCEPT ![p] =
        [IdleProc EXCEPT !.pc = "title_find", !.op = "title", !.chatId = c,
                         !.userId = u, !.newTitle = t]]
  /\ UNCHANGED <<clock, nextOid, chats, appended, rtvars>>

\* findOne, then chat.title = newTitle.trim() and the validation of save()
TitleFind(p, up) ==
  /\ procs[p].pc = "title_find"
  /\ LET found == FindOne(chats, procs[p].chatId, procs[p].userId)
         doc == [found EXCEPT !.title = Trim(procs[p].newTitle)]
     IN procs' = IF ~up THEN Return(p, "error")
                 ELSE IF ~found.found THEN Return(p, "notfound")
                 ELSE IF ValidationError(doc) # "none" THEN Return(p, ValidationError(doc))
                 ELSE [procs EXCEPT ![p].pc = "title_save", ![p].doc = doc,
                                    ![p].base = Len(doc.messages)]
  /\ UNCHANGED <<clock, nextOid, chats, appended, rtvars>>

TitleSave(p, up) ==
  /\ procs[p].pc = "title_save"
  /\ IF up
     THEN /\ chats' = [chats EXCEPT ![procs[p].chatId] = save(@, procs[p].doc)]
          /\ procs' = Return(p, "ok")
     ELSE /\ procs' = Return(p, "error")
          /\ UNCHANGED chats
  /\ UNCHANGED <<clock, nextOid, appended, rtvars>>

\* ------------------------------------------------------------- deleteChat
CallDelete(p, c, u) ==
  /\ Free(p)
  /\ procs' = [procs EXCEPT ![p] =
        [IdleProc EXCEPT !.pc = "del_find", !.op = "delete", !.chatId = c, !.userId = u]]
  /\ UNCHANGED <<clock, nextOid, chats, appended, rtvars>>

\* ChatSchema.methods.deactivate, local part
deactivate(doc) == [doc EXCEPT !.isActive = FALSE]

\* findOne; no chat, or an error: false
DeleteFind(p, up) ==
  /\ procs[p].pc = "del_find"
  /\ LET doc == FindOne(chats, procs[p].chatId, procs[p].userId)
     IN procs' = IF ~up \/ ~doc.found THEN Return(p, "false")
                 ELSE [procs EXCEPT ![p].pc = "del_save", ![p].doc = deactivate(doc)]
  /\ UNCHANGED <<clock, nextOid, chats, appended, rtvars>>

DeleteSave(p, up) ==
  /\ procs[p].pc = "del_save"
  /\ IF up
     THEN /\ chats' = [chats EXCEPT ![procs[p].chatId] = save(@, procs[p].doc)]
          /\ procs' = Return(p, "true")
     ELSE /\ procs' = Return(p, "false")
          /\ UNCHANGED chats
  /\ UNCHANGED <<clock, nextOid, appended, rtvars>>

\* ------------------------------------------------------------- session context
\* chat.updateSessionContext(key, value), as the update its save() sends: the
\* entry of the key is set in the stored map, the other entries stay
updateSessionContext(map, key, value) ==
  IF \E i \in 1..Len(map) : map[i][1] = key
  THEN [i \in 1..Len(map) |-> IF map[i][1] = key THEN <<key, value>> ELSE map[i]]
  ELSE Append(map, <<key, value>>)

\* SessionMemoryService.storeContext(chatId, key, value) up to its findById
CallStoreContext(p, c, key, value) ==
  /\ Free(p)
  /\ procs' = [procs EXCEPT ![p] =
        [IdleProc EXCEPT !.pc = "ctx_find", !.op = "storeContext", !.chatId = c,
                         !.entry = <<key, value>>]]
  /\ UNCHANGED <<clock, nextOid, chats, appended, rtvars>>

\* findById answers; no chat, or an error that the catch block logs: return
StoreContextFind(p, up) ==
  /\ procs[p].pc = "ctx_find"
  /\ LET doc == FindById(chats, procs[p].chatId)
     IN procs' = IF ~up THEN Return(p, "error")
                 ELSE IF ~doc.found THEN Return(p, "nochat")
                 ELSE [procs EXCEPT ![p].pc = "ctx_save", ![p].doc = doc]
  /\ UNCHANGED <<clock, nextOid, chats, appended, rtvars>>

\* the save() of updateSessionContext
StoreContextSave(p, up) ==
  /\ procs[p].pc = "ctx_save"
  /\ IF up
     THEN /\ chats' = [chats EXCEPT ![procs[p].chatId] =
               [save(@, procs[p].doc) EXCEPT
                  !.sessionContext =
                     updateSessionContext(@, procs[p].entry[1], procs[p].entry[2])]]
          /\ procs' = Return(p, "ok")
     ELSE /\ procs' = Return(p, "error")
          /\ UNCHANGED chats
  /\ UNCHANGED <<clock, nextOid, appended, rtvars>>

\* SessionMemoryService.clearSessionContext(chatId) up to its findById
CallClear(p, c) ==
  /\ Free(p)
  /\ procs' = [procs EXCEPT ![p] =
        [IdleProc EXCEPT !.pc = "clear_find", !.op = "clear", !.chatId = c]]
  /\ UNCHANGED <<clock, nextOid, chats, appended, rtvars>>

\* findById answers; no chat, or an error that the catch block logs: return
ClearFind(p, up) ==
  /\ procs[p].pc = "clear_find"
  /\ LET doc == FindById(chats, procs[p].chatId)
     IN procs' = IF ~up THEN Return(p, "error")
                 ELSE IF ~doc.found THEN Return(p, "nochat")
                 ELSE [procs EXCEPT ![p].pc = "clear_save", ![p].doc = doc]
  /\ UNCHANGED <<clock, nextOid, chats, appended, rtvars>>

\* a clear that resets the facts about the user with the map
ClearSaveAll(p, up) ==
  /\ procs[p].pc = "clear_save"
  /\ IF up
     THEN /\ chats' = [chats EXCEPT ![procs[p].chatId] =
               [save(@, procs[p].doc) EXCEPT !.sessionContext = <<>>,
                                             !.userInfo = NoUserInfo]]
          /\ procs' = Return(p, "ok")
     ELSE /\ procs' = Return(p, "error")
          /\ UNCHANGED chats
  /\ UNCHANGED <<clock, nextOid, appended, rtvars>>

\* chat.sessionContext = new Map(); await chat.save(): the path is set to the
\* empty map, and the pre-save hook has run
ClearSave(p, up) ==
  /\ procs[p].pc = "clear_save"
  /\ IF up
     THEN /\ chats' = [chats EXCEPT ![procs[p].chatId] =
               [save(@, procs[p].doc) EXCEPT !.sessionContext = <<>>]]
          /\ procs' = Return(p, "ok")
     ELSE /\ procs' = Return(p, "error")
          /\ UNCHANGED chats
  /\ UNCHANGED <<clock, nextOid, appended, rtvars>>

\* ------------------------------------------------------------- reads
CallGet(p, c, u) ==
  /\ Free(p)
  /\ procs' = [procs EXCEPT ![p] =
        [IdleProc EXCEPT !.pc = "get_find", !.op = "get", !.chatId = c, !.userId = u]]
  /\ UNCHANGED <<clock, nextOid, chats, appended, rtvars>>

\* getChatById: the chat, or null (also when the query throws)
getChatById(store, up, chatId, userId) ==
  IF up THEN findChatWithMessages(store, chatId, userId) ELSE NoDoc

GetFind(p, up) ==
  /\ procs[p].pc = "get_find"
  /\ LET doc == getChatById(chats, up, procs[p].chatId, procs[p].userId)
     IN procs' = Return(p, IF doc.found THEN "found" ELSE "null")
  /\ UNCHANGED <<clock, nextOid, chats, appended, rtvars>>

CallHistory(p, c, u, limit) ==
  /\ Free(p)
  /\ procs' = [procs EXCEPT ![p] =
        [IdleProc EXCEPT !.pc = "hist_find", !.op = "history", !.chatId = c,
                         !.userId = u, !.limit = limit]]
  /\ UNCHANGED <<clock, nextOid, chats, appended, rtvars>>

\* socket.on('history') up to the await of getChatHistory; data.limit is <<>>
\* when the event has none, and limit then 50
HistoryCall(p, s, c, limit) ==
  /\ Free(p)
  /\ Open(s)
  /\ procs' = [procs EXCEPT ![p] =
        [IdleProc EXCEPT !.pc = "hist_find", !.op = "history", !.chatId = c,
                         !.userId = socks[s].userId, !.sock = s,
                         !.limit = IF limit = <<>> THEN DefaultHistoryLimit ELSE limit[1]]]
  /\ UNCHANGED <<clock, nextOid, chats, appended, rtvars>>

\* what the history handler emits to its socket when getChatHistory ended
HistoryEvent(p, res) ==
  [NoEvent EXCEPT !.type = IF res = "ok" THEN "history" ELSE "error",
                  !.to = ToSocket(procs[p].sock), !.by = p, !.origin = procs[p].sock,
                  !.chatId = IF res = "ok" THEN procs[p].chatId ELSE "none",
                  !.code = IF res = "ok" THEN "none" ELSE "HISTORY_ERROR",
                  !.res = res]

\* getChatHistory: findOne; no chat: throw; else chat.getMessageHistory(limit).
\* The history handler then emits the messages, or an error, to its socket.
HistoryFind(p, up) ==
  /\ procs[p].pc = "hist_find"
  /\ LET doc == FindOne(chats, procs[p].chatId, procs[p].userId)
         res == IF ~up THEN "error" ELSE IF ~doc.found THEN "notfound" ELSE "ok"
     IN /\ procs' = IF res # "ok" THEN Return(p, res)
                    ELSE [Return(p, "ok") EXCEPT
                            ![p].hist = getMessageHistory(doc.messages, procs[p].limit)]
        /\ events' = IF procs[p].sock = "none" THEN events
                     ELSE Append(events, HistoryEvent(p, res))
  /\ UNCHANGED <<clock, nextOid, chats, appended, socks, activeSessions>>

RECURSIVE SortByLastMessage(_, _)
\* sort({lastMessageAt: -1}) of a set of chat ids
SortByLastMessage(store, ids) ==
  IF ids = {} THEN <<>>
  ELSE LET c == CHOOSE c \in ids :
                  \A d \in ids : store[c].lastMessageAt >= store[d].lastMessageAt
       IN <<c>> \o SortByLastMessage(store, ids \ {c})

\* Chat.findUserChats: the active chats of the user, the latest first, at most
\* limit of them (limit 0: all)
findUserChats(store, userId, limit) ==
  LET found == SortByLastMessage(store,
                 {c \in ChatIds : store[c].created /\ store[c].userId = userId
                                    /\ store[c].isActive})
  IN IF limit = 0 \/ limit >= Len(found) THEN found ELSE SubSeq(found, 1, limit)

CallList(p, u, limit) ==
  /\ Free(p)
  /\ procs' = [procs EXCEPT ![p] =
        [IdleProc EXCEPT !.pc = "list_find", !.op = "list", !.userId = u, !.limit = limit]]
  /\ UNCHANGED <<clock, nextOid, chats, appended, rtvars>>

\* getUserChats: the chats found, or [] when the query throws
ListFind(p, up) ==
  /\ procs[p].pc = "list_find"
  /\ procs' = [Return(p, IF up THEN "ok" ELSE "empty") EXCEPT
        ![p].list = IF up THEN findUserChats(chats, procs[p].userId, procs[p].limit)
                    ELSE <<>>]
  /\ UNCHANGED <<clock, nextOid, chats, appended, rtvars>>

\* ------------------------------------------------------------- the store under
\* concurrent callers
UserDraft == [sender |-> "user", text |-> <<"h", "i">>, aiModel |-> "none"]
AiDraft == [sender |-> "ai", text |-> <<"o", "k", " ">>, aiModel |-> "gpt-4"]

\* the database answers every call of the store's callers
StoreUp == {TRUE}

StoreDrafts == {UserDraft, AiDraft}
StoreTitles == {<<" ", "T">>}
StoreLimits == {DefaultHistoryLimit}

Init ==
  /\ clock = 0
  /\ nextOid = 0
  /\ chats = [c \in ChatIds |-> NoChat]
  /\ procs = [p \in ProcIds |-> IdleProc]
  /\ appended = [c \in ChatIds |-> 0]
  /\ socks = [s \in SocketIds |-> NoSocket]
  /\ activeSessions = [s \in {} |-> "none"]
  /\ events = <<>>

StoreNext ==
  \/ Tick
  \/ createChat("c1", "u1", <<"health">>, <<>>)
  \/ \E p \in ProcIds, u \in Users : \E d \in StoreDrafts : CallAdd(p, "c1", u, d)
  \/ \E p \in ProcIds  : \E up \in StoreUp : AddFind(p, up)
  \/ \E p \in ProcIds : AddMsg(p)
  \/ \E p \in ProcIds  : \E up \in StoreUp : AddSave(p, up)
  \/ \E p \in ProcIds, u \in Users : \E t \in StoreTitles : CallTitle(p, "c1", u, t)
  \/ \E p \in ProcIds  : \E up \in StoreUp : TitleFind(p, up)
  \/ \E p \in ProcIds  : \E up \in StoreUp : TitleSave(p, up)
  \/ \E p \in ProcIds, u \in Users : CallDelete(p, "c1", u)
  \/ \E p \in ProcIds  : \E up \in StoreUp : DeleteFind(p, up)
  \/ \E p \in ProcIds  : \E up \in StoreUp : DeleteSave(p, up)
  \/ \E p \in ProcIds, u \in Users : CallGet(p, "c1", u)
  \/ \E p \in ProcIds  : \E up \in StoreUp : GetFind(p, up)
  \/ \E p \in ProcIds, u \in Users : \E l \in StoreLimits : CallHistory(p, "c1", u, l)
  \/ \E p \in ProcIds  : \E up \in StoreUp : HistoryFind(p, up)

SpecStore == Init /\ [][StoreNext]_vars

\* ------------------------------------------------------------- one caller
\* appending to a new chat, one call after the other
\* the caller has its answer and makes the next call
NextCall(p) ==
  /\ procs[p].pc = "done"
  /\ procs[p].res = "ok"
  /\ procs' = [procs EXCEPT ![p] = IdleProc]
  /\ UNCHANGED <<clock, nextOid, chats, appended, rtvars>>

SeqTick ==
  /\ Len(chats["c1"].messages) < MaxTickedLen
  /\ Tick

SeqNext ==
  \/ SeqTick
  \/ createChat("c1", "u1", <<"health">>, <<>>)
  \/ CallAdd("p1", "c1", "u1", UserDraft)
  \/ AddFind("p1", TRUE)
  \/ AddMsg("p1")
  \/ AddSave("p1", TRUE)
  \/ NextCall("p1")

\* the chat after n such calls, the first one at time 0 and the others at time 1
SeqChat(n) ==
  [createNewChat("u1", <<"health">>, <<>>, 0) EXCEPT
     !.messages = [i \in 1..n |->
        [messageId |-> <<"oid", i - 1>>, timestamp |-> IF i = 1 THEN 0 ELSE 1,
         sender |-> UserDraft.sender, text |-> Trim(UserDraft.text),
         aiModel |-> UserDraft.aiModel]],
     !.lastMessageAt = 1]

\* the run starts with no chat, or where SeqStart calls have led it
SeqStart == MessageLimit - 2

SeqInit ==
  \/ Init
  \/ /\ clock = 1
     /\ nextOid = SeqStart
        /\ chats = [c \in ChatIds |-> IF c = "c1" THEN SeqChat(SeqStart) ELSE NoChat]
     /\ procs = [p \in ProcIds |->
          IF p = "p1"
          THEN [IdleProc EXCEPT !.pc = "done", !.op = "add", !.chatId = "c1",
                  !.userId = "u1", !.draft = UserDraft, !.res = "ok",
                  !.msg = SeqChat(SeqStart).messages[SeqStart],
                  !.base = SeqStart - 1, !.pos = SeqStart]
          ELSE IdleProc]
     /\ appended = [c \in ChatIds |-> IF c = "c1" THEN SeqStart ELSE 0]
     /\ socks = [s \in SocketIds |-> NoSocket]
     /\ activeSessions = [s \in {} |-> "none"]
     /\ events = <<>>

SpecSeq == SeqInit /\ [][SeqNext]_vars

\* ------------------------------------------------------------- connections
\* the users collection: the ids of the active users
ActiveUsers == {"u1"}

NoToken == [kind |-> "none", userId |-> "none"]
ValidToken(u) == [kind |-> "valid", userId |-> u]

\* a verifyToken that decodes the token and checks nothing
verifyTokenAny(tok) == tok.userId

\* verifyToken: the payload, or a throw for an invalid or expired token
verifyToken(tok) == IF tok.kind = "valid" THEN tok.userId ELSE "throws"

\* validateUserSession: the user, or null (not found, inactive, database error)
validateUserSession(userId, up) == IF up /\ userId \in ActiveUsers THEN userId ELSE "null"

\* getUserSessions: the socket ids that the map gives this user
getUserSessions(userId) == {s \in DOMAIN activeSessions : activeSessions[s] = userId}

\* the io.use middleware: the user id the socket gets, or "reject".  A user
\* that validateUserSession does not return is replaced by a mock user made of
\* the token.
authenticate(tok, up) ==
  IF tok.kind = "none" THEN "reject"
  ELSE IF verifyToken(tok) \in {"throws", "none"} THEN "reject"
  ELSE IF validateUserSession(verifyToken(tok), up) = "null" THEN verifyToken(tok)
  ELSE validateUserSession(verifyToken(tok), up)

SocketOrder == <<"s1", "s2">>

\* the sockets connect in order of their ids
NextSocket(s) ==
  /\ socks[s].state = "new"
  /\ \A i, j \in 1..Len(SocketOrder) :
       (SocketOrder[j] = s /\ i < j) => socks[SocketOrder[i]].state # "new"

\* a client connects: the middleware, then io.on('connection')
Connect(s, tok, up) ==
  /\ NextSocket(s)
  /\ LET userId == authenticate(tok, up)
     IN IF userId = "reject"
        THEN /\ socks' = [socks EXCEPT ![s].state = "rejected", ![s].token = tok.kind]
             /\ UNCHANGED activeSessions
        ELSE /\ socks' = [socks EXCEPT ![s].state = "open", ![s].userId = userId,
                                       ![s].token = tok.kind]
             /\ activeSessions' =
                  [t \in DOMAIN activeSessions \cup {s} |->
                     IF t = s THEN userId ELSE activeSessions[t]]
  /\ UNCHANGED <<clock, nextOid, chats, procs, appended, events>>

\* a disconnect that also ended the handlers of the socket
DisconnectAborts(s) ==
  /\ Open(s)
  /\ socks' = [socks EXCEPT ![s].state = "closed", ![s].rooms = {}]
  /\ activeSessions' = [t \in DOMAIN activeSessions \ {s} |-> activeSessions[t]]
  /\ procs' = [p \in ProcIds |->
       IF procs[p].sock = s /\ procs[p].pc \notin {"idle", "done"}
       THEN [procs[p] EXCEPT !.pc = "done", !.res = "aborted", !.doc = NoDoc]
       ELSE procs[p]]
  /\ UNCHANGED <<clock, nextOid, chats, appended, events>>

\* socket.on('disconnect'): socket.io has left the rooms of the socket
Disconnect(s) ==
  /\ Open(s)
  /\ socks' = [socks EXCEPT ![s].state = "closed", ![s].rooms = {}]
  /\ activeSessions' = [t \in DOMAIN activeSessions \ {s} |-> activeSessions[t]]
  /\ UNCHANGED <<clock, nextOid, chats, procs, appended, events>>

\* ------------------------------------------------------------- join_chat, leave_chat
\* socket.on('join_chat') up to the await of getChatById
JoinCall(p, s, c) ==
  /\ Free(p)
  /\ Open(s)
  /\ procs' = [procs EXCEPT ![p] =
        [IdleProc EXCEPT !.pc = "join_lookup", !.op = "join", !.chatId = c,
                         !.userId = socks[s].userId, !.sock = s]]
  /\ UNCHANGED <<clock, nextOid, chats, appended, rtvars>>

\* getChatById answers: no chat, an error to the socket; else socket.join(chatId)
\* and the confirmation
JoinLookup(p, up) ==
  /\ procs[p].pc = "join_lookup"
  /\ LET s == procs[p].sock
         c == procs[p].chatId
         chat == getChatById(chats, up, c, procs[p].userId)
     IN IF ~chat.found
        THEN /\ events' = Append(events, ErrorEvent(p, s, c, "CHAT_NOT_FOUND"))
             /\ procs' = Return(p, "denied")
             /\ UNCHANGED socks
        ELSE /\ socks' = [socks EXCEPT ![s].rooms = @ \cup {c}]
             /\ events' = Append(events,
                  [NoEvent EXCEPT !.type = "joined_chat", !.to = ToSocket(s), !.by = p,
                                  !.origin = s, !.chatId = c])
             /\ procs' = Return(p, "joined")
  /\ UNCHANGED <<clock, nextOid, chats, appended, activeSessions>>

\* a leave_chat that leaves every room of the socket
LeaveChatAll(s, c) ==
  /\ Open(s)
  /\ Cardinality({i \in 1..Len(events) : events[i].type = "left_chat"}) < MaxLeaves
  /\ socks' = [socks EXCEPT ![s].rooms = {}]
  /\ events' = Append(events,
       [NoEvent EXCEPT !.type = "left_chat", !.to = ToSocket(s), !.origin = s, !.chatId = c])
  /\ UNCHANGED <<clock, nextOid, chats, procs, appended, activeSessions>>

\* socket.on('leave_chat')
LeaveChat(s, c) ==
  /\ Open(s)
  /\ Cardinality({i \in 1..Len(events) : events[i].type = "left_chat"}) < MaxLeaves
  /\ socks' = [socks EXCEPT ![s].rooms = @ \ {c}]
  /\ events' = Append(events,
       [NoEvent EXCEPT !.type = "left_chat", !.to = ToSocket(s), !.origin = s, !.chatId = c])
  /\ UNCHANGED <<clock, nextOid, chats, procs, appended, activeSessions>>

\* a typing status sent with io.to(room), the sender included
TypingToRoom(s, c, isTyping) ==
  /\ Open(s)
  /\ Cardinality({i \in 1..Len(events) : events[i].type = "user_typing"}) < MaxTyping
  /\ events' = Append(events,
       [NoEvent EXCEPT !.type = "user_typing", !.to = ToRoom(c), !.origin = s,
                       !.chatId = c, !.code = IF isTyping THEN "typing" ELSE "idle"])
  /\ UNCHANGED <<clock, nextOid, chats, procs, appended, socks, activeSessions>>

\* ------------------------------------------------------------- typing
\* socket.on('typing'): the status is sent to the other sockets of the room
Typing(s, c, isTyping) ==
  /\ Open(s)
  /\ Cardinality({i \in 1..Len(events) : events[i].type = "user_typing"}) < MaxTyping
  /\ events' = Append(events,
       [NoEvent EXCEPT !.type = "user_typing", !.to = ToOthers(s, c), !.origin = s,
                       !.chatId = c, !.code = IF isTyping THEN "typing" ELSE "idle"])
  /\ UNCHANGED <<clock, nextOid, chats, procs, appended, socks, activeSessions>>

\* ------------------------------------------------------------- message
\* socket.on('message') up to the await of getChatById: the text is validated
MessageCall(p, s, c, text) ==
  /\ Free(p)
  /\ Open(s)
  /\ LET call == [IdleProc EXCEPT !.op = "message", !.chatId = c,
                    !.userId = socks[s].userId, !.sock = s, !.text = text,
                    !.inRoom = c \in socks[s].rooms]
         code == IF text = <<>> \/ Trim(text) = <<>> THEN "INVALID_MESSAGE"
                 ELSE IF Len(text) > MaxTextLength THEN "MESSAGE_TOO_LONG"
                 ELSE "none"
     IN IF code # "none"
        THEN /\ procs' = [procs EXCEPT ![p] = [call EXCEPT !.pc = "done", !.res = "invalid"]]
             /\ events' = Append(events, ErrorEvent(p, s, c, code))
        ELSE /\ procs' = [procs EXCEPT ![p] = [call EXCEPT !.pc = "msg_lookup"]]
             /\ UNCHANGED events
  /\ UNCHANGED <<clock, nextOid, chats, appended, socks, activeSessions>>

\* getChatById answers: no chat, an error to the socket; else the user message
\* is made and addMessageToChat called
MessageLookup(p, up) ==
  /\ procs[p].pc = "msg_lookup"
  /\ LET chat == getChatById(chats, up, procs[p].chatId, procs[p].userId)
     IN IF ~chat.found
        THEN /\ events' = Append(events,
                  ErrorEvent(p, procs[p].sock, procs[p].chatId, "CHAT_NOT_FOUND"))
             /\ procs' = Return(p, "denied")
        ELSE /\ procs' = [procs EXCEPT
                  ![p].pc = "add_find", ![p].phase = "user", ![p].topics = chat.topics,
                  ![p].draft = [sender |-> "user", text |-> Trim(procs[p].text),
                                aiModel |-> "none"]]
             /\ UNCHANGED events
  /\ UNCHANGED <<clock, nextOid, chats, appended, socks, activeSessions>>

\* generateAIResponse(text, chat.topics) answers: a success is made the AI
\* message and addMessageToChat called; a failure is an error to the socket; a
\* throw is caught by the handler's outer catch
AiCall(p, backend) ==
  /\ procs[p].pc = "ai_call"
  /\ LET aiResponse == generateAIResponse(procs[p].topics, "none", backend)
         call == [procs EXCEPT
                    ![p].backend = backend, ![p].gen = aiResponse,
                    ![p].prompt = enhancedPrompt(procs[p].text, buildContextForAI(chats, TRUE, "none")),
                    ![p].called = modelsCalled(procs[p].topics, "none")]
     IN IF aiResponse.thrown
        THEN /\ procs' = [call EXCEPT ![p].pc = "done", ![p].res = "threw", ![p].ai = "threw"]
             /\ events' = Append(events,
                  ErrorEvent(p, procs[p].sock, "none", "MESSAGE_ERROR"))
        ELSE IF aiResponse.success /\ aiResponse.text # <<>>
        THEN /\ procs' = [call EXCEPT
                  ![p].pc = "add_find", ![p].phase = "ai", ![p].ai = "ok",
                  ![p].draft = [sender |-> "ai", text |-> aiResponse.text,
                                aiModel |-> aiResponse.model]]
             /\ UNCHANGED events
        ELSE /\ procs' = [call EXCEPT ![p].pc = "done", ![p].res = "ai_error",
                                      ![p].ai = "failed"]
             /\ events' = Append(events,
                  ErrorEvent(p, procs[p].sock, procs[p].chatId, "AI_ERROR"))
  /\ UNCHANGED <<clock, nextOid, chats, appended, socks, activeSessions>>

\* ------------------------------------------------------------- generateAIResponse
\* called on its own
\* generateAIResponse(prompt, topics, chatId, preferredModel) up to its first await
GenCall(p, prompt, topics, chatId, preferredModel) ==
  /\ Free(p)
  /\ procs' = [procs EXCEPT ![p] =
        [IdleProc EXCEPT !.pc = IF chatId # "none" THEN "gen_context" ELSE "gen_model",
                         !.op = "generate", !.text = prompt, !.topics = topics,
                         !.chatId = chatId, !.preferred = preferredModel,
                         !.prompt = enhancedPrompt(prompt, <<>>)]]
  /\ UNCHANGED <<clock, nextOid, chats, appended, rtvars>>

\* buildContextForAI(chatId) answers
GenContext(p, up) ==
  /\ procs[p].pc = "gen_context"
  /\ procs' = [procs EXCEPT
        ![p].pc = "gen_model",
        ![p].memory = Append(@, "buildContextForAI"),
        ![p].prompt = enhancedPrompt(procs[p].text,
                                     buildContextForAI(chats, up, procs[p].chatId))]
  /\ UNCHANGED <<clock, nextOid, chats, appended, rtvars>>

\* the model function answers and generateAIResponse returns
GenReturn(p, backend) ==
  /\ procs[p].pc = "gen_model"
  /\ LET r == generateAIResponse(procs[p].topics, procs[p].preferred, backend)
     IN procs' = [procs EXCEPT
          ![p].pc = "done", ![p].backend = backend, ![p].gen = r,
          ![p].called = modelsCalled(procs[p].topics, procs[p].preferred),
          ![p].res = IF r.thrown THEN "threw" ELSE IF r.success THEN "ok" ELSE "failed"]
  /\ UNCHANGED <<clock, nextOid, chats, appended, rtvars>>

\* ------------------------------------------------------------- callers of
\* generateAIResponse
GenPrompts == {<<"h", "i">>}
GenTopics == {<<"health">>, <<"health", "education">>}
GenChats == {"none", "c1"}
GenModels == AIModel \cup {"none"}
GenBackends == {"ok", "timeout", "auth", "quota"}

\* the chat c1 holds two messages and no call is in flight
GenInit ==
  /\ clock = 1
  /\ nextOid = 2
  /\ chats = [c \in ChatIds |-> IF c = "c1" THEN SeqChat(2) ELSE NoChat]
  /\ procs = [p \in ProcIds |-> IdleProc]
  /\ appended = [c \in ChatIds |-> IF c = "c1" THEN 2 ELSE 0]
  /\ socks = [s \in SocketIds |-> NoSocket]
  /\ activeSessions = [s \in {} |-> "none"]
  /\ events = <<>>

GenNext ==
  \/ \E p \in {"p1", "p2"} : \E prompt \in GenPrompts, topics \in GenTopics :
       \E c \in GenChats, m \in GenModels : GenCall(p, prompt, topics, c, m)
  \/ \E p \in ProcIds : \E up \in BOOLEAN : GenContext(p, up)
  \/ \E p \in ProcIds : \E b \in GenBackends : GenReturn(p, b)

SpecGen == GenInit /\ [][GenNext]_vars

\* ------------------------------------------------------------- the coordinator
\* the database answers a call, or fails it
RTUp == BOOLEAN

RTTokens == {NoToken, ValidToken("u1"), ValidToken("u2")}
RTTexts == {<<" ", "h", "i">>, <<" ">>}
Backends == {"ok", "timeout"}

JoinNext ==
  \/ createChat("c1", "u1", <<"health">>, <<>>)
  \/ \E s \in SocketIds : \E tok \in RTTokens : \E up \in RTUp : Connect(s, tok, up)
  \/ \E s \in SocketIds : Disconnect(s)
  \/ \E p \in ProcIds, s \in SocketIds : JoinCall(p, s, "c1")
  \/ \E p \in ProcIds  : \E up \in RTUp : JoinLookup(p, up)
  \/ \E s \in SocketIds : LeaveChat(s, "c1")
  \/ \E p \in ProcIds : CallDelete(p, "c1", "u1")
  \/ \E p \in ProcIds  : \E up \in RTUp : DeleteFind(p, up)
  \/ \E p \in ProcIds  : \E up \in RTUp : DeleteSave(p, up)

\* connections, rooms and the chat they join
SpecJoin == Init /\ [][JoinNext]_vars

\* two connections of the owner of chat c1, both in its room
MsgInit ==
  /\ clock = 0
  /\ nextOid = 0
  /\ chats = [c \in ChatIds |->
       IF c = "c1" THEN createNewChat("u1", <<"health">>, <<>>, 0) ELSE NoChat]
  /\ procs = [p \in ProcIds |-> IdleProc]
  /\ appended = [c \in ChatIds |-> 0]
  /\ socks = [s \in SocketIds |-> [state |-> "open", userId |-> "u1", rooms |-> {"c1"}, token |-> "valid"]]
  /\ activeSessions = [s \in SocketIds |-> "u1"]
  /\ events = <<>>

MsgNext ==
  \/ Tick
  \/ \E s \in SocketIds : Disconnect(s)
  \/ \E s \in SocketIds : \E text \in RTTexts : MessageCall("p1", s, "c1", text)
  \/ \E p \in ProcIds : \E up \in RTUp : MessageLookup(p, up)
  \/ \E p \in ProcIds : \E up \in RTUp : AddFind(p, up)
  \/ \E p \in ProcIds : AddMsg(p)
  \/ \E p \in ProcIds : \E up \in RTUp : AddSave(p, up)
  \/ \E p \in ProcIds : \E b \in Backends : AiCall(p, b)
  \/ CallDelete("p2", "c1", "u1")
  \/ \E p \in ProcIds : \E up \in RTUp : DeleteFind(p, up)
  \/ \E p \in ProcIds : \E up \in RTUp : DeleteSave(p, up)

\* a message handler of a connection of the room, the other connection, and a
\* deleteChat of the owner
SpecMsg == MsgInit /\ [][MsgNext]_vars

GoneNext ==
  \/ Tick
  \/ Disconnect("s1")
  \/ \E text \in RTTexts : MessageCall("p1", "s1", "c1", text)
  \/ \E up \in RTUp : MessageLookup("p1", up)
  \/ \E up \in RTUp : AddFind("p1", up)
  \/ AddMsg("p1")
  \/ \E up \in RTUp : AddSave("p1", up)
  \/ \E b \in Backends : AiCall("p1", b)
  \/ \E p \in {"p2", "p3"} : \E l \in StoreLimits : CallHistory(p, "c1", "u1", l)
  \/ \E p \in {"p2", "p3"} : \E up \in RTUp : HistoryFind(p, up)

\* a message handler, the disconnect of its connection, and getChatHistory calls
\* of the owner
SpecGone == MsgInit /\ [][GoneNext]_vars

PairTexts == {<<" ", "h", "i">>}

PairNext ==
  \/ Tick
  \/ \E text \in PairTexts : MessageCall("p1", "s1", "c1", text)
  \/ \E text \in PairTexts : MessageCall("p2", "s2", "c1", text)
  \/ \E p \in ProcIds : MessageLookup(p, TRUE)
  \/ \E p \in ProcIds : AddFind(p, TRUE)
  \/ \E p \in ProcIds : AddMsg(p)
  \/ \E p \in ProcIds : AddApply(p, TRUE)
  \/ \E p \in ProcIds : AddAck(p)
  \/ \E p \in ProcIds : \E b \in Backends : AiCall(p, b)

\* the two connections of the room send a message each, the database answers
\* every call
SpecPair == MsgInit /\ [][PairNext]_vars

\* texts at the bounds of the validation: empty, blank, of the greatest length
\* and one longer
BoundTexts == {<<>>, <<" ">>, LongText(MaxTextLength), LongText(MaxTextLength + 1)}

\* one handler at a time: the second message is sent when the first is handled
TextNext ==
  \/ Tick
  \/ \E text \in BoundTexts : MessageCall("p1", "s1", "c1", text)
  \/ /\ Done("p1")
     /\ \E text \in BoundTexts : MessageCall("p2", "s1", "c1", text)
  \/ \E p \in ProcIds : MessageLookup(p, TRUE)
  \/ \E p \in ProcIds : AddFind(p, TRUE)
  \/ \E p \in ProcIds : AddMsg(p)
  \/ \E p \in ProcIds : AddSave(p, TRUE)
  \/ \E p \in ProcIds : \E b \in Backends : AiCall(p, b)

SpecText == MsgInit /\ [][TextNext]_vars

\* s1, of the owner of chat c1, is in its room; s2 is connected, for the owner
\* or for another user, and in no room
RoomInit ==
  /\ clock = 0
  /\ nextOid = 0
  /\ chats = [c \in ChatIds |->
       IF c = "c1" THEN createNewChat("u1", <<"health">>, <<>>, 0) ELSE NoChat]
  /\ procs = [p \in ProcIds |-> IdleProc]
  /\ appended = [c \in ChatIds |-> 0]
  /\ \E u \in Users :
       /\ socks = [s \in SocketIds |->
            IF s = "s1" THEN [state |-> "open", userId |-> "u1", rooms |-> {"c1"}, token |-> "valid"]
            ELSE [state |-> "open", userId |-> u, rooms |-> {}, token |-> "valid"]]
       /\ activeSessions = [s \in SocketIds |-> IF s = "s1" THEN "u1" ELSE u]
  /\ events = <<>>

RoomNext ==
  \/ \E s \in SocketIds : \E t \in BOOLEAN : Typing(s, "c1", t)
  \/ \E s \in SocketIds : LeaveChat(s, "c1")
  \/ \E s \in SocketIds : \E text \in PairTexts : MessageCall("p1", s, "c1", text)
  \/ \E p \in ProcIds : MessageLookup(p, TRUE)
  \/ \E p \in ProcIds : AddFind(p, TRUE)
  \/ \E p \in ProcIds : AddMsg(p)
  \/ \E p \in ProcIds : AddSave(p, TRUE)
  \/ \E p \in ProcIds : \E b \in Backends : AiCall(p, b)

\* typing and message events of sockets inside and outside the room
SpecRoom == RoomInit /\ [][RoomNext]_vars

\* topics lists on both sides of the validation, and titles: none, one to
\* trim, one too long
CreateTopics ==
  {<<>>, <<"health">>, <<"health", "education">>, <<"education", "health">>,
   <<"health", "education", "health">>, <<"sports">>, <<"health", "sports">>}

CreateTitles == {<<>>, <<" ", "T">>, LongText(MaxTitleLength + 1)}

CreateNext ==
  \/ Tick
  \/ \E p \in {"p1", "p2"}, u \in Users : \E topics \in CreateTopics, title \in CreateTitles :
       CreateCall(p, u, topics, title)
  \/ \E p \in ProcIds : \E up \in RTUp : CreateSave(p, up)

\* callers of createChat
SpecCreate == Init /\ [][CreateNext]_vars

\* the chat c1 holds two messages; s1, of its owner, and s2, of another user,
\* are connected
HistInit ==
  /\ clock = 1
  /\ nextOid = 2
  /\ chats = [c \in ChatIds |-> IF c = "c1" THEN SeqChat(2) ELSE NoChat]
  /\ procs = [p \in ProcIds |-> IdleProc]
  /\ appended = [c \in ChatIds |-> IF c = "c1" THEN 2 ELSE 0]
  /\ socks = [s \in SocketIds |->
       [state |-> "open", userId |-> IF s = "s1" THEN "u1" ELSE "u2", rooms |-> {},
        token |-> "valid"]]
  /\ activeSessions = [s \in SocketIds |-> IF s = "s1" THEN "u1" ELSE "u2"]
  /\ events = <<>>

HistLimits == {0, 1, 2, DefaultHistoryLimit}

HistNext ==
  \/ \E p \in ProcIds, u \in Users : \E l \in HistLimits : CallHistory(p, "c1", u, l)
  \/ \E p \in ProcIds, s \in SocketIds : \E l \in {<<>>} \cup {<<n>> : n \in HistLimits} :
       HistoryCall(p, s, "c1", l)
  \/ \E p \in ProcIds : \E up \in RTUp : HistoryFind(p, up)
  \/ \E p \in ProcIds : CallDelete(p, "c1", "u1")
  \/ \E p \in ProcIds : \E up \in RTUp : DeleteFind(p, up)
  \/ \E p \in ProcIds : \E up \in RTUp : DeleteSave(p, up)

\* getChatHistory, from callers and from the history handler, and deleteChat
SpecHist == HistInit /\ [][HistNext]_vars

DefaultListLimit == 20

DelNext ==
  \/ \E p \in ProcIds : CallDelete(p, "c1", "u1")
  \/ \E p \in ProcIds : \E up \in StoreUp : DeleteFind(p, up)
  \/ \E p \in ProcIds : \E up \in StoreUp : DeleteSave(p, up)
  \/ \E p \in ProcIds : CallAdd(p, "c1", "u1", UserDraft)
  \/ \E p \in ProcIds : \E up \in StoreUp : AddFind(p, up)
  \/ \E p \in ProcIds : AddMsg(p)
  \/ \E p \in ProcIds : \E up \in StoreUp : AddSave(p, up)
  \/ \E p \in ProcIds : \E t \in StoreTitles : CallTitle(p, "c1", "u1", t)
  \/ \E p \in ProcIds : \E up \in StoreUp : TitleFind(p, up)
  \/ \E p \in ProcIds : \E up \in StoreUp : TitleSave(p, up)
  \/ \E p \in ProcIds : CallGet(p, "c1", "u1")
  \/ \E p \in ProcIds : \E up \in StoreUp : GetFind(p, up)
  \/ \E p \in ProcIds : CallHistory(p, "c1", "u1", DefaultHistoryLimit)
  \/ \E p \in ProcIds : \E up \in StoreUp : HistoryFind(p, up)
  \/ \E p \in ProcIds : CallList(p, "u1", DefaultListLimit)
  \/ \E p \in ProcIds : \E up \in StoreUp : ListFind(p, up)
  \/ \E p \in ProcIds : JoinCall(p, "s1", "c1")
  \/ \E p \in ProcIds : \E up \in StoreUp : JoinLookup(p, up)

\* deleteChat among the other calls of the owner on the chat
SpecDel == HistInit /\ [][DelNext]_vars

\* drafts with and without a model, of either sender
DraftInputs ==
  {UserDraft, AiDraft,
   [sender |-> "user", text |-> <<"h", "i">>, aiModel |-> "gpt-4"],
   [sender |-> "ai", text |-> <<"o", "k", " ">>, aiModel |-> "none"]}

DraftNext ==
  \/ Tick
  \/ createChat("c1", "u1", <<"health">>, <<>>)
  \/ \E p \in {"p1", "p2"} : \E d \in DraftInputs : CallAdd(p, "c1", "u1", d)
  \/ \E p \in ProcIds : \E up \in StoreUp : AddFind(p, up)
  \/ \E p \in ProcIds : AddMsg(p)
  \/ \E p \in ProcIds : \E up \in StoreUp : AddSave(p, up)

\* callers of addMessageToChat with any draft
SpecDraft == Init /\ [][DraftNext]_vars

\* handshakes without a token, with a token that does not verify, with an
\* expired one and with valid ones
AuthTokens ==
  {NoToken, [kind |-> "invalid", userId |-> "u1"], [kind |-> "expired", userId |-> "u1"],
   ValidToken("u1"), ValidToken("u2")}

AuthNext ==
  \/ createChat("c1", "u1", <<"health">>, <<>>)
  \/ \E s \in SocketIds : \E tok \in AuthTokens : \E up \in RTUp : Connect(s, tok, up)
  \/ \E s \in SocketIds : Disconnect(s)
  \/ \E p \in ProcIds, s \in SocketIds : JoinCall(p, s, "c1")
  \/ \E p \in ProcIds : JoinLookup(p, TRUE)
  \/ \E s \in SocketIds : Typing(s, "c1", TRUE)
  \/ \E p \in ProcIds, s \in SocketIds : MessageCall(p, s, "c1", <<" ">>)

\* handshakes and the events of the connections
SpecAuth == Init /\ [][AuthNext]_vars

\* two chats of u1, the second with a stored message, and two connections
\* in any of the two rooms
EphInit ==
  /\ clock = 1
  /\ nextOid = 1
  /\ chats = [c \in ChatIds |->
       IF c = "c1" THEN createNewChat("u1", <<"health">>, <<>>, 0)
       ELSE [createNewChat("u1", <<"sports">>, <<>>, 0) EXCEPT
               !.messages = <<[NoMessage EXCEPT !.messageId = <<"oid", 0>>,
                                                !.text = <<"h">>, !.sender = "user",
                                                !.timestamp = 1]>>,
               !.lastMessageAt = 1]]
  /\ procs = [p \in ProcIds |-> IdleProc]
  /\ appended = [c \in ChatIds |-> IF c = "c2" THEN 1 ELSE 0]
  /\ \E u \in Users : \E r1, r2 \in SUBSET ChatIds :
       /\ socks = [s \in SocketIds |->
            IF s = "s1" THEN [state |-> "open", userId |-> "u1", rooms |-> r1, token |-> "valid"]
            ELSE [state |-> "open", userId |-> u, rooms |-> r2, token |-> "valid"]]
       /\ activeSessions = [s \in SocketIds |-> IF s = "s1" THEN "u1" ELSE u]
  /\ events = <<>>

EphNext ==
  \/ \E s \in SocketIds, c \in ChatIds : LeaveChat(s, c)
  \/ \E s \in SocketIds, c \in ChatIds : \E t \in BOOLEAN : Typing(s, c, t)
  \/ \E s \in SocketIds : Disconnect(s)

\* leave_chat and typing events of connections in two rooms
SpecEph == EphInit /\ [][EphNext]_vars

\* two chats of u1 and a connection of u1 in the room of each
TwoInit ==
  /\ clock = 1
  /\ nextOid = 0
  /\ chats = [c \in ChatIds |->
       createNewChat("u1", IF c = "c1" THEN <<"health">> ELSE <<"sports">>, <<>>, 0)]
  /\ procs = [p \in ProcIds |-> IdleProc]
  /\ appended = [c \in ChatIds |-> 0]
  /\ socks = [s \in SocketIds |->
       [state |-> "open", userId |-> "u1", rooms |-> {IF s = "s1" THEN "c1" ELSE "c2"},
        token |-> "valid"]]
  /\ activeSessions = [s \in SocketIds |-> "u1"]
  /\ events = <<>>

TwoNext ==
  \/ \E text \in PairTexts : MessageCall("p1", "s1", "c1", text)
  \/ \E text \in PairTexts : MessageCall("p2", "s2", "c2", text)
  \/ CallAdd("p3", "c1", "u1", UserDraft)
  \/ \E p \in ProcIds : MessageLookup(p, TRUE)
  \/ \E p \in ProcIds : AddFind(p, TRUE)
  \/ \E p \in ProcIds : AddMsg(p)
  \/ \E p \in ProcIds : AddSave(p, TRUE)
  \/ \E p \in ProcIds : \E b \in Backends : AiCall(p, b)

\* a message in each of two chats and an addMessageToChat on the first
SpecTwo == TwoInit /\ [][TwoNext]_vars

\* the messages a chat holds after n appends, user and AI in turn, the i-th
\* with a text of i characters
CtxMessages(n) ==
  [i \in 1..n |->
     [messageId |-> <<"oid", i - 1>>, timestamp |-> 1,
      sender |-> IF i % 2 = 1 THEN "user" ELSE "ai", text |-> [j \in 1..i |-> "h"],
      aiModel |-> IF i % 2 = 1 THEN "none" ELSE "gpt-4"]]

\* the chat c1 with zero to six messages, with and without each fact about the
\* user, and with a session context of zero to two entries
CtxInit ==
  /\ clock = 1
  /\ nextOid \in 0..6
  /\ \E name \in {"", "Sam"}, interests \in {<<>>, <<"chess">>, <<"chess", "go">>} :
       \E goals \in {<<>>, <<"win">>}, preferences \in {<<>>, << <<"tone", "brief">> >>} :
       \E session \in {<<>>, << <<"k", "v">> >>, << <<"k", "v">>, <<"l", "w">> >>} :
         chats = [c \in ChatIds |->
           IF c = "c1"
           THEN [createNewChat("u1", <<"health">>, <<>>, 0) EXCEPT
                   !.messages = CtxMessages(nextOid),
                   !.lastMessageAt = IF nextOid > 0 THEN 1 ELSE 0,
                   !.userInfo = [name |-> name, interests |-> interests, goals |-> goals,
                                 preferences |-> preferences],
                   !.sessionContext = session]
           ELSE NoChat]
  /\ procs = [p \in ProcIds |-> IdleProc]
  /\ appended = [c \in ChatIds |-> IF c = "c1" THEN nextOid ELSE 0]
  /\ socks = [s \in SocketIds |-> NoSocket]
  /\ activeSessions = [s \in {} |-> "none"]
  /\ events = <<>>

CtxNext ==
  \/ \E prompt \in GenPrompts : GenCall("p1", prompt, <<"health">>, "c1", "none")
  \/ GenContext("p1", TRUE)
  \/ \E b \in Backends : GenReturn("p1", b)

\* generateAIResponse on chats of every content
SpecCtx == CtxInit /\ [][CtxNext]_vars

\* two chats of u1 that know the name of the user; the first has been
\* deactivated or not
ClearInit ==
  /\ clock = 1
  /\ nextOid = 0
  /\ \E active \in BOOLEAN :
       chats = [c \in ChatIds |->
         [createNewChat("u1", <<"health">>, <<>>, 0) EXCEPT
            !.userInfo = [NoUserInfo EXCEPT !.name = "Sam"],
            !.isActive = IF c = "c1" THEN active ELSE TRUE]]
  /\ procs = [p \in ProcIds |-> IdleProc]
  /\ appended = [c \in ChatIds |-> 0]
  /\ socks = [s \in SocketIds |-> NoSocket]
  /\ activeSessions = [s \in {} |-> "none"]
  /\ events = <<>>

ClearNext ==
  \/ \E p \in ProcIds, c \in ChatIds : \E key \in {"k", "l"} : CallStoreContext(p, c, key, "v")
  \/ \E p \in ProcIds : \E up \in RTUp : StoreContextFind(p, up)
  \/ \E p \in ProcIds : \E up \in RTUp : StoreContextSave(p, up)
  \/ \E p \in ProcIds, c \in ChatIds : CallClear(p, c)
  \/ \E p \in ProcIds : \E up \in RTUp : ClearFind(p, up)
  \/ \E p \in ProcIds : \E up \in RTUp : ClearSave(p, up)
  \/ \E p \in ProcIds : CallAdd(p, "c2", "u1", UserDraft)
  \/ \E p \in ProcIds : AddFind(p, TRUE)
  \/ \E p \in ProcIds : AddMsg(p)
  \/ \E p \in ProcIds : AddSave(p, TRUE)

\* storeContext, clearSessionContext and addMessageToChat calls on two chats
SpecClear == ClearInit /\ [][ClearNext]_vars

\* the store or the backend answers the call that handler p awaits
HandlerStep(p) ==
  \/ \E up \in RTUp : MessageLookup(p, up)
  \/ \E up \in RTUp : AddFind(p, up)
  \/ AddMsg(p)
  \/ \E up \in RTUp : AddSave(p, up)
  \/ \E b \in Backends : AiCall(p, b)

\* SpecMsg where every call that a handler awaits returns
SpecMsgFair == SpecMsg /\ \A p \in ProcIds : WF_vars(HandlerStep(p))

\* ------------------------------------------------------------- properties
InOrder(msgs) ==
  \A i \in 1..(Len(msgs) - 1) : msgs[i].timestamp <= msgs[i + 1].timestamp

Holds(msgs, m) == \E i \in 1..Len(msgs) : msgs[i] = m

\* two addMessageToChat calls on one chat that both loaded the chat, each before
\* the update of the other was applied
Concurrent(p, q) ==
  /\ p # q
  /\ procs[p].op = "add" /\ procs[q].op = "add"
  /\ procs[p].chatId = procs[q].chatId
  /\ Done(p) /\ Done(q)
  /\ procs[p].res # "notfound" /\ procs[q].res # "notfound"
  /\ (procs[p].pos = 0 \/ procs[q].base < procs[p].pos)
  /\ (procs[q].pos = 0 \/ procs[p].base < procs[q].pos)

\* C1: two concurrent addMessageToChat calls on one active chat both succeed, and
\* the stored messages and the history hold both messages as they were stamped
C1_ConcurrentAppendsKept ==
  \A p, q \in ProcIds :
    Concurrent(p, q) =>
      LET msgs == chats[procs[p].chatId].messages
          hist == getMessageHistory(msgs, DefaultHistoryLimit)
      IN /\ procs[p].res = "ok" /\ procs[q].res = "ok"
         /\ Holds(msgs, procs[p].msg) /\ Holds(msgs, procs[q].msg)
         /\ Holds(hist, procs[p].msg) /\ Holds(hist, procs[q].msg)

C1_Witness ==
  /\ Concurrent("p1", "p2")
  /\ procs["p1"].base = procs["p2"].base
  /\ procs["p1"].msg.timestamp # procs["p2"].msg.timestamp
  /\ Holds(chats["c1"].messages, procs["p1"].msg)
  /\ Holds(chats["c1"].messages, procs["p2"].msg)

\* C2: in every reachable state the stored messages of every chat are in
\* timestamp order
C2_StoredInTimestampOrder == \A c \in ChatIds : InOrder(chats[c].messages)

\* C3: after N addMessageToChat calls made one after the other on a new chat the
\* chat stores N messages, N <= 1000, in timestamp order, and lastMessageAt is the
\* timestamp of the N-th
C3_SequentialAppends ==
  LET msgs == chats["c1"].messages
      N == appended["c1"]
  IN /\ N <= MessageLimit
     /\ Len(msgs) = N
     /\ InOrder(msgs)
     /\ (N > 0 => chats["c1"].lastMessageAt = msgs[N].timestamp)

C3_Witness ==
  /\ appended["c1"] = MessageLimit
  /\ Len(chats["c1"].messages) = MessageLimit
  /\ chats["c1"].lastMessageAt = chats["c1"].messages[MessageLimit].timestamp
  /\ chats["c1"].messages[1].timestamp < chats["c1"].lastMessageAt
  /\ procs["p1"].pc = "done"

\* C4: whenever a chat stores a message, its lastMessageAt is the timestamp of
\* the last stored message
C4_LastMessageAt ==
  \A c \in ChatIds :
    chats[c].messages # <<>> =>
      chats[c].lastMessageAt = chats[c].messages[Len(chats[c].messages)].timestamp

\* C5: an append to a chat that stores 1000 messages fails with the error of the
\* message limit and leaves the stored chat as it was
C5_LimitRejects ==
  [][\A p \in ProcIds :
       (/\ procs[p].pc = "add_msg"
        /\ Len(procs[p].doc.messages) = MessageLimit
        /\ chats[procs[p].chatId].messages = procs[p].doc.messages
        /\ procs'[p] # procs[p])
       => (/\ procs'[p].pc = "done"
           /\ procs'[p].res = "limit"
           /\ chats' = chats)]_vars

C5_Witness ==
  /\ procs["p1"].pc = "done"
  /\ procs["p1"].res = "limit"
  /\ Len(chats["c1"].messages) = MessageLimit
  /\ appended["c1"] = MessageLimit

NotFoundResults == {"null", "notfound", "false"}

\* C6: a step of a call made with (chatId, userId) where userId is not the owner of
\* the chat changes no stored chat, and the call ends reporting not-found
C6_NonOwnerScoped ==
  [][\A p \in ProcIds :
       (/\ procs'[p] # procs[p]
        /\ procs'[p].chatId \in ChatIds
        /\ chats[procs'[p].chatId].created
        /\ procs'[p].userId # chats[procs'[p].chatId].userId)
       => (/\ chats' = chats
           /\ procs'[p].pc \in {"add_find", "title_find", "del_find", "get_find",
                                "hist_find", "done"}
           /\ (procs'[p].pc = "done" => procs'[p].res \in NotFoundResults))]_vars

\* every operation was tried by a user who is not the owner of an active chat
C6_Witness ==
  /\ chats["c1"].created /\ chats["c1"].isActive /\ chats["c1"].userId = "u1"
  /\ chats["c1"].title = DefaultTitle(chats["c1"].topics)
  /\ chats["c1"].messages = <<>>
  /\ \A p \in ProcIds :
       /\ procs[p].pc = "done"
       /\ procs[p].userId = "u2"
       /\ procs[p].chatId = "c1"
       /\ procs[p].res \in NotFoundResults
  /\ procs["p1"].op = "add" /\ procs["p2"].op = "title" /\ procs["p3"].op = "delete"

\* the chat c is active and owned by user u
OwnedActive(c, u) == chats[c].created /\ chats[c].isActive /\ chats[c].userId = u

C8_BroadcastAfterPersist ==
  \A i \in 1..Len(events) :
    events[i].type = "message" =>
      /\ events[i].res = "ok"
      /\ Holds(chats[events[i].chatId].messages, events[i].stored)

\* C9: a message handler whose addMessageToChat of the user message failed has
\* emitted an error event by the time it ends
C9_PersistFailureReported ==
  \A p \in ProcIds :
    (/\ procs[p].op = "message"
     /\ procs[p].pc = "done"
     /\ procs[p].ures \notin {"none", "ok"})
    => \E i \in 1..Len(events) : events[i].type = "error" /\ events[i].by = p

\* C10: the message of a message event has the id and the timestamp of the
\* stored message
C10_BroadcastIsStored ==
  \A i \in 1..Len(events) :
    (events[i].type = "message" /\ events[i].res = "ok") =>
      /\ events[i].msg.messageId = events[i].stored.messageId
      /\ events[i].msg.timestamp = events[i].stored.timestamp

\* the model function that a generateAIResponse call invoked last
LastCalled(p) == procs[p].called[Len(procs[p].called)]

\* the error that this invocation reported
LastError(p) == IF LastCalled(p) = "gpt-4" THEN procs[p].backend ELSE "not configured"

\* the model function that the call invoked failed
BackendFailed(p) == LastCalled(p) # "gpt-4" \/ procs[p].backend # "ok"

GenDone(p) == procs[p].op = "generate" /\ procs[p].pc = "done"

\* C15: generateAIResponse never throws; when the model function it invoked
\* failed it returns success = false, the fixed fallback text and an error reason
C15_GenerateNeverThrows ==
  \A p \in ProcIds :
    GenDone(p) =>
      /\ ~procs[p].gen.thrown
      /\ procs[p].res # "threw"
      /\ BackendFailed(p) =>
           /\ ~procs[p].gen.success
           /\ procs[p].gen.text = FallbackText
           /\ procs[p].gen.error \notin {"none", ""}
      /\ ~BackendFailed(p) => procs[p].gen.success

\* the OpenAI call timed out, for a call with the context of chat c1; the call of
\* a model without API key failed as well
C15_Witness ==
  /\ GenDone("p1") /\ procs["p1"].backend = "timeout" /\ procs["p1"].preferred = "none"
  /\ procs["p1"].chatId = "c1" /\ Len(procs["p1"].prompt.context) = 3
  /\ procs["p1"].gen.text = FallbackText /\ ~procs["p1"].gen.success
  /\ GenDone("p2") /\ procs["p2"].preferred = "mistral" /\ procs["p2"].res = "failed"

\* C16: a failure is returned only after every model of the enumeration was
\* called, and the call succeeds when a model that would answer exists
C16_FallbackChain ==
  \A p \in ProcIds :
    GenDone(p) =>
      /\ ~procs[p].gen.success =>
           \A m \in AIModel : \E i \in 1..Len(procs[p].called) : procs[p].called[i] = m
      /\ procs[p].backend = "ok" => procs[p].gen.success

\* C17: a failure result names the model function invoked last and carries the
\* error that this invocation reported
C17_FailureNamesLastBackend ==
  \A p \in ProcIds :
    (GenDone(p) /\ ~procs[p].gen.success) =>
      /\ procs[p].gen.model = LastCalled(p)
      /\ procs[p].gen.error = LastError(p)

\* the message events of handler p that carry a message of this sender
MessagesSent(p, sender) ==
  {i \in 1..Len(events) :
     events[i].type = "message" /\ events[i].by = p /\ events[i].msg.sender = sender}

\* the place of message m in the stored messages of chat c, 0 for none
PlaceOf(c, m) ==
  IF Holds(chats[c].messages, m)
  THEN CHOOSE i \in 1..Len(chats[c].messages) : chats[c].messages[i] = m
  ELSE 0

\* C11: when the ai_thinking notice of a handler is emitted its user message is
\* stored and was broadcast; when its AI message is stored or broadcast, the
\* user message is stored before it and was broadcast before it
C11_UserMessageFirst ==
  \A j \in 1..Len(events) :
    LET p == events[j].by
        c == events[j].chatId
    IN /\ events[j].type = "ai_thinking" =>
            \E i \in MessagesSent(p, "user") :
               i < j /\ events[i].res = "ok" /\ PlaceOf(c, events[i].stored) > 0
       /\ (events[j].type = "message" /\ events[j].msg.sender = "ai") =>
            \E i \in MessagesSent(p, "user") :
               /\ i < j
               /\ events[i].res = "ok"
               /\ PlaceOf(c, events[i].stored) > 0
               /\ events[j].res = "ok" =>
                    PlaceOf(c, events[i].stored) < PlaceOf(c, events[j].stored)

\* C13: a message handler goes on after the disconnect of its socket: once the
\* user message is handled it ends only with the answer of generateAIResponse,
\* a successful answer is handed to addMessageToChat, the AI message that
\* addMessageToChat stored is in the chat, and a getChatHistory of the owner
\* that succeeds later returns it
C13_ReplyStoredAfterDisconnect ==
  /\ [](\A p \in ProcIds :
          (procs[p].op = "message" /\ procs[p].pc = "done"
             /\ procs[p].res \notin {"invalid", "denied"}) =>
            /\ procs[p].ai # "none"
            /\ procs[p].ai = "ok" => procs[p].ares # "none"
            /\ procs[p].ares = "ok" => Holds(chats[procs[p].chatId].messages, procs[p].msg))
  /\ [][\A p \in ProcIds :
          /\ (procs[p].pc = "ai_call" /\ procs'[p].pc # "ai_call"
                /\ procs'[p].backend = "ok") =>
               /\ procs'[p].pc = "add_find"
               /\ procs'[p].draft.sender = "ai"
          /\ (procs[p].op = "message" /\ procs[p].pc = "done" /\ procs[p].ares = "ok") =>
               \A q \in ProcIds :
                 (procs[q].pc = "hist_find" /\ procs'[q].res = "ok") =>
                    Holds(procs'[q].hist, procs[p].msg)]_vars

\* s1 disconnected after its user message was broadcast to it and before the AI
\* message was; the AI message is stored and a later history holds it
C13_Witness ==
  /\ ~Open("s1")
  /\ procs["p1"].pc = "done" /\ procs["p1"].ures = "ok" /\ procs["p1"].ares = "ok"
  /\ \E i \in MessagesSent("p1", "user") : "s1" \in events[i].to
  /\ \E j \in MessagesSent("p1", "ai") : "s1" \notin events[j].to
  /\ Len(chats["c1"].messages) = 2
  /\ chats["c1"].messages[2] = procs["p1"].msg
  /\ procs["p1"].msg.sender = "ai"
  /\ procs["p2"].op = "history" /\ procs["p2"].res = "ok"
  /\ Len(procs["p2"].hist) = 2 /\ procs["p2"].hist[2] = procs["p1"].msg

\* C14: when generateAIResponse returns a failure the handler emits one error
\* event, to its own socket only, stores nothing and ends; it broadcasts no AI
\* message
C14_AiFailureScoped ==
  /\ [][\A p \in ProcIds :
          (procs[p].pc = "ai_call" /\ procs'[p].pc # "ai_call"
             /\ ~procs'[p].gen.success) =>
            /\ chats' = chats
            /\ procs'[p].pc = "done"
            /\ Len(events') = Len(events) + 1
            /\ SubSeq(events', 1, Len(events)) = events
            /\ events'[Len(events')].type = "error"
            /\ events'[Len(events')].by = p
            /\ events'[Len(events')].to \subseteq {procs[p].sock}]_vars
  /\ [](\A p \in ProcIds :
          (procs[p].op = "message" /\ procs[p].ai = "failed") =>
            /\ procs[p].pc = "done"
            /\ MessagesSent(p, "ai") = {}
            /\ \A i \in 1..Len(chats[procs[p].chatId].messages) :
                 chats[procs[p].chatId].messages[i].sender # "ai")

\* the backend failed for the message of s1 while s2 was in the room: the user
\* message is stored and was sent to both, the error went to s1 alone
C14_Witness ==
  /\ procs["p1"].pc = "done" /\ procs["p1"].ai = "failed" /\ procs["p1"].ures = "ok"
  /\ procs["p1"].sock = "s1" /\ procs["p1"].backend = "timeout"
  /\ Open("s1") /\ Open("s2") /\ "c1" \in socks["s2"].rooms
  /\ Len(chats["c1"].messages) = 1
  /\ events[Len(events)].type = "error" /\ events[Len(events)].code = "AI_ERROR"
  /\ events[Len(events)].to = {"s1"}
  /\ \E i \in MessagesSent("p1", "user") : events[i].to = {"s1", "s2"}

\* C18: a handler that got the answer of generateAIResponse had called
\* extractAndStoreUserInfo for the user text, and the prompt it gave carried
\* the context that buildContextForAI made for the chat
C18_SessionMemoryUsed ==
  \A p \in ProcIds :
    (procs[p].op = "message" /\ procs[p].ai # "none") =>
      /\ \E i \in 1..Len(procs[p].memory) : procs[p].memory[i] = "extractAndStoreUserInfo"
      /\ \E i \in 1..Len(procs[p].memory) : procs[p].memory[i] = "buildContextForAI"
      /\ procs[p].prompt.context # <<>>

\* C12: two messages that were stored and broadcast to the room were broadcast
\* in the order in which the chat stores them
C12_BroadcastOrderIsStoredOrder ==
  \A i, j \in 1..Len(events) :
    (/\ i < j
     /\ events[i].type = "message" /\ events[j].type = "message"
     /\ events[i].chatId = events[j].chatId
     /\ events[i].res = "ok" /\ events[j].res = "ok") =>
       PlaceOf(events[i].chatId, events[i].stored) < PlaceOf(events[j].chatId, events[j].stored)

\* the text is empty, blank or longer than 5000 characters
Refused(text) ==
  \/ text = <<>>
  \/ \A i \in 1..Len(text) : text[i] = " "
  \/ Len(text) > MaxTextLength

\* C19: a message event whose text is empty, blank or longer than 5000
\* characters gets one error event, to its socket, and nothing else happens:
\* no chat changes, no room changes, the handler ends without a call of the
\* backend or a broadcast; any other text is accepted
C19_InvalidTextRefused ==
  /\ [][\A p \in ProcIds :
          (procs[p].pc = "idle" /\ procs'[p].op = "message") =>
            IF Refused(procs'[p].text)
            THEN /\ procs'[p].pc = "done"
                 /\ procs'[p].res = "invalid"
                 /\ chats' = chats /\ socks' = socks /\ appended' = appended
                 /\ Len(events') = Len(events) + 1
                 /\ SubSeq(events', 1, Len(events)) = events
                 /\ events'[Len(events')].type = "error"
                 /\ events'[Len(events')].by = p
                 /\ events'[Len(events')].to = {procs'[p].sock}
            ELSE /\ procs'[p].pc = "msg_lookup"
                 /\ events' = events]_vars
  /\ [](\A p \in ProcIds :
          (procs[p].op = "message" /\ Refused(procs[p].text)) =>
            /\ procs[p].pc = "done"
            /\ procs[p].called = <<>> /\ procs[p].ai = "none" /\ procs[p].ures = "none"
            /\ Cardinality({i \in 1..Len(events) : events[i].by = p}) = 1)

\* a text of 5001 characters was refused, then one of 5000 was stored, broadcast
\* and answered
C19_Witness ==
  /\ procs["p1"].res = "invalid" /\ Len(procs["p1"].text) = MaxTextLength + 1
  /\ procs["p2"].pc = "done" /\ Len(procs["p2"].text) = MaxTextLength
  /\ procs["p2"].ures = "ok" /\ procs["p2"].ares = "ok"
  /\ Len(chats["c1"].messages) = 2
  /\ Len(chats["c1"].messages[1].text) = MaxTextLength
  /\ events[1].type = "error" /\ events[1].code = "MESSAGE_TOO_LONG"
  /\ events[1].to = {"s1"}

\* C20: a user_typing or message event that reaches a socket of the room comes
\* from a typing or message event of a socket that was in the room, of the
\* owner of the chat, when its event arrived
C20_RoomEventsFromMembers ==
  [][\A k \in (Len(events) + 1)..Len(events') :
       LET e == events'[k]
       IN /\ (e.type = "user_typing" /\ e.to # {}) =>
               /\ e.chatId \in socks[e.origin].rooms
               /\ socks[e.origin].userId = chats[e.chatId].userId
          /\ (e.type = "message" /\ e.to # {}) =>
               /\ procs[e.by].inRoom
               /\ procs[e.by].userId = chats[e.chatId].userId]_vars

\* one or two topics, each of the enumeration
TopicsOk(topics) ==
  /\ Len(topics) \in {1, 2}
  /\ \A i \in 1..Len(topics) : topics[i] \in {"health", "education"}

Created(store) == {c \in ChatIds : store[c].created}

\* C21: createChat with no topic, more than two topics or a topic outside the
\* enumeration fails with the error of the topics and creates no chat; with
\* one or two valid topics it goes on to the insert, which creates one chat
\* with these topics for this user unless the database or the title fails it
C21_TopicsValidated ==
  /\ [][\A p \in ProcIds :
          /\ (procs[p].pc = "idle" /\ procs'[p].op = "create") =>
               IF TopicsOk(procs'[p].topics)
               THEN procs'[p].pc = "create_save" /\ chats' = chats
               ELSE /\ procs'[p].pc = "done"
                    /\ procs'[p].res = "invalid_topics"
                    /\ chats' = chats
          /\ (procs[p].pc = "create_save" /\ procs'[p].pc = "done") =>
               /\ procs'[p].res \in {"ok", "error", "invalid"}
               /\ procs'[p].res = "invalid" => Len(Trim(procs[p].newTitle)) > MaxTitleLength
               /\ procs'[p].res # "ok" => chats' = chats
               /\ procs'[p].res = "ok" =>
                    /\ Created(chats') = Created(chats) \cup {procs'[p].chatId}
                    /\ procs'[p].chatId \notin Created(chats)
                    /\ chats'[procs'[p].chatId].topics = procs[p].topics
                    /\ chats'[procs'[p].chatId].userId = procs[p].userId
                    /\ chats'[procs'[p].chatId].isActive]_vars
  /\ [](\A c \in ChatIds : chats[c].created => TopicsOk(chats[c].topics))

\* three topics were refused and created nothing, two topics created a chat
C21_Witness ==
  /\ procs["p1"].op = "create" /\ procs["p1"].res = "invalid_topics"
  /\ Len(procs["p1"].topics) = 3
  /\ procs["p2"].op = "create" /\ procs["p2"].res = "ok" /\ procs["p2"].chatId = "c1"
  /\ chats["c1"].topics = <<"education", "health">>
  /\ Created(chats) = {"c1"}

\* C22: a chat created without a title has the topics, in the order of the list,
\* joined by ' & ' and followed by ' Chat' as its title; two such chats with
\* the same topics have the same title
C22_DefaultTitleOfTopics ==
  \A p, q \in ProcIds :
    (/\ procs[p].op = "create" /\ procs[p].res = "ok" /\ procs[p].newTitle = <<>>
     /\ procs[q].op = "create" /\ procs[q].res = "ok" /\ procs[q].newTitle = <<>>
     /\ procs[p].topics = procs[q].topics) =>
       /\ chats[procs[p].chatId].title = chats[procs[q].chatId].title
       /\ Len(procs[p].topics) = 1 =>
            chats[procs[p].chatId].title = <<procs[p].topics[1], "Chat">>
       /\ Len(procs[p].topics) = 2 =>
            chats[procs[p].chatId].title =
              <<procs[p].topics[1], "&", procs[p].topics[2], "Chat">>

\* two users created a chat about the same two topics at different times
C22_Witness ==
  /\ procs["p1"].op = "create" /\ procs["p1"].res = "ok" /\ procs["p1"].newTitle = <<>>
  /\ procs["p2"].op = "create" /\ procs["p2"].res = "ok" /\ procs["p2"].newTitle = <<>>
  /\ procs["p1"].topics = <<"health", "education">>
  /\ procs["p2"].topics = <<"health", "education">>
  /\ chats["c1"].userId # chats["c2"].userId
  /\ chats["c1"].lastMessageAt # chats["c2"].lastMessageAt
  /\ chats["c1"].title = chats["c2"].title

Min(a, b) == IF a < b THEN a ELSE b

\* C23: a getChatHistory that succeeds returns the last min(limit, n) of the n
\* stored messages, in ascending order of timestamp, and does so only for the
\* owner of an active chat
C23_HistoryIsLastLimit ==
  \A p \in ProcIds :
    (procs[p].op = "history" /\ procs[p].pc = "done" /\ procs[p].res = "ok") =>
      LET msgs == chats[procs[p].chatId].messages
          n == Len(msgs)
          k == Min(procs[p].limit, n)
      IN /\ procs[p].hist = SubSeq(msgs, n - k + 1, n)
         /\ InOrder(procs[p].hist)
         /\ procs[p].userId = chats[procs[p].chatId].userId

\* the positions at which a call or handler awaits its query for the chat
LookupPcs ==
  {"add_find", "title_find", "del_find", "get_find", "hist_find", "join_lookup",
   "msg_lookup"}

Inactive(c) == c \in ChatIds /\ chats[c].created /\ ~chats[c].isActive

\* C24: a query for a deactivated chat finds nothing: the call or handler ends
\* with not-found and changes neither the chats nor the rooms, and
\* getUserChats lists no deactivated chat; the step that deactivates a chat
\* changes nothing of it but isActive
C24_InactiveNotFound ==
  [][/\ \A p \in ProcIds :
          /\ (procs[p].pc \in LookupPcs /\ Inactive(procs[p].chatId)
                /\ procs'[p] # procs[p]) =>
               /\ procs'[p].pc = "done"
               /\ procs'[p].res \in {"notfound", "null", "false", "denied"}
               /\ chats' = chats
               /\ socks' = socks
          /\ (procs[p].pc = "list_find" /\ procs'[p].pc = "done") =>
               \A i \in 1..Len(procs'[p].list) : ~Inactive(procs'[p].list[i])
     /\ \A c \in ChatIds :
          (chats[c].isActive /\ ~chats'[c].isActive) =>
             chats'[c] = [chats[c] EXCEPT !.isActive = FALSE]]_vars

\* after a delete the owner's append, title update, read, history, list and
\* join found nothing, and the two messages are still stored
C24_Witness ==
  /\ Inactive("c1")
  /\ chats["c1"].messages = SeqChat(2).messages
  /\ procs["p1"].op = "delete" /\ procs["p1"].res = "true"
  /\ procs["p2"].op = "join" /\ procs["p2"].res = "denied"
  /\ procs["p3"].op = "list" /\ procs["p3"].pc = "done" /\ procs["p3"].list = <<>>
  /\ socks["s1"].rooms = {}

\* C25: a deleteChat that looks the chat up after another deleteChat returned
\* true returns false and changes nothing; no step of a deleteChat changes a
\* deactivated chat, and a deactivated chat stays deactivated
C25_DeleteIdempotent ==
  [][/\ \A q \in ProcIds :
          (/\ procs[q].op = "delete" /\ procs[q].pc = "del_find"
           /\ procs'[q] # procs[q]
           /\ \E p \in ProcIds \ {q} :
                /\ procs[p].op = "delete" /\ procs[p].pc = "done"
                /\ procs[p].res = "true" /\ procs[p].chatId = procs[q].chatId) =>
             /\ procs'[q].pc = "done"
             /\ procs'[q].res = "false"
             /\ chats' = chats
     /\ \A q \in ProcIds :
          (procs[q].op = "delete" /\ procs'[q] # procs[q] /\ Inactive(procs[q].chatId)) =>
             chats' = chats
     /\ \A c \in ChatIds : Inactive(c) => ~chats'[c].isActive]_vars

\* two deleteChat calls, one after the other
C25_Witness ==
  /\ Inactive("c1")
  /\ procs["p1"].op = "delete" /\ procs["p1"].res = "true"
  /\ procs["p2"].op = "delete" /\ procs["p2"].res = "false"
  /\ procs["p3"].pc = "idle"
  /\ chats["c1"] = [SeqChat(2) EXCEPT !.isActive = FALSE]

IsPrefix(a, b) == Len(a) <= Len(b) /\ SubSeq(b, 1, Len(a)) = a

\* C26: every step leaves the messages a chat stored before it as a prefix of
\* the messages it stores after it
C26_AppendOnly ==
  [][\A c \in ChatIds : IsPrefix(chats[c].messages, chats'[c].messages)]_vars

\* two concurrent callers appended a message each and a third deleted the chat
C26_Witness ==
  /\ Len(chats["c1"].messages) = 2
  /\ chats["c1"].messages[1].sender # chats["c1"].messages[2].sender
  /\ ~chats["c1"].isActive
  /\ procs["p1"].op = "add" /\ procs["p2"].op = "add" /\ procs["p3"].op = "delete"
  /\ procs["p1"].res = "ok" /\ procs["p2"].res = "ok" /\ procs["p3"].res = "true"

C28_OwnerAndTopicsFixed ==
  [][\A c \in ChatIds :
       chats[c].created =>
         /\ chats'[c].created
         /\ chats'[c].userId = chats[c].userId
         /\ chats'[c].topics = chats[c].topics]_vars

\* the chat of u1 about health got a message and a new title and was deleted
C28_Witness ==
  /\ chats["c1"].userId = "u1" /\ chats["c1"].topics = <<"health">>
  /\ Len(chats["c1"].messages) = 1
  /\ chats["c1"].title = <<"T">>
  /\ ~chats["c1"].isActive
  /\ \A p \in ProcIds : procs[p].pc = "done" /\ procs[p].userId = "u1"


\* C29: a handshake without a token, or with a token that is invalid or
\* expired, is refused: the connection is open or was open only with a valid
\* token, and a connection that is not open yet or was refused is in no
\* registry, in no room, has no handler and no event
C29_BadTokenRejected ==
  \A s \in SocketIds :
    /\ socks[s].state \in {"open", "closed"} => socks[s].token = "valid"
    /\ (socks[s].state # "new" /\ socks[s].token # "valid") => socks[s].state = "rejected"
    /\ socks[s].state \in {"new", "rejected"} =>
         /\ s \notin DOMAIN activeSessions
         /\ socks[s].rooms = {}
         /\ \A p \in ProcIds : procs[p].sock # s
         /\ \A i \in 1..Len(events) : events[i].origin # s

\* a handshake with an expired token was refused and one with a valid token
\* went on to join the room and to send events
C29_Witness ==
  /\ socks["s1"].state = "rejected" /\ socks["s1"].token = "expired"
  /\ socks["s2"].state = "open" /\ socks["s2"].token = "valid"
  /\ socks["s2"].rooms = {"c1"}
  /\ \E i \in 1..Len(events) : events[i].origin = "s2" /\ events[i].type = "user_typing"

Serves(type) ==
  /\ Len(events') = Len(events) + 1
  /\ events'[Len(events')].type = type

\* C31: a leave_chat step ends with the connection outside the room it names,
\* with its other rooms, the rooms of the other connections and the stored
\* chats as they were
C31_LeaveUnsubscribesOnly ==
  [][Serves("left_chat") =>
       LET e == events'[Len(events')]
       IN /\ e.chatId \notin socks'[e.origin].rooms
          /\ socks'[e.origin].rooms \ {e.chatId} = socks[e.origin].rooms \ {e.chatId}
          /\ \A t \in SocketIds \ {e.origin} : socks'[t] = socks[t]
          /\ chats' = chats]_vars

\* s1 left c1 and is still in the room of c2, s2 is still in the room of c1
C31_Witness ==
  /\ \E i \in 1..Len(events) :
       events[i].type = "left_chat" /\ events[i].origin = "s1" /\ events[i].chatId = "c1"
  /\ socks["s1"].rooms = {"c2"}
  /\ socks["s2"].rooms = {"c1"}
  /\ Len(chats["c2"].messages) = 1

\* C32: a typing step changes no stored chat and its status goes to the
\* connected members of the room except the sender
C32_TypingRelayedToOthers ==
  [][Serves("user_typing") =>
       LET e == events'[Len(events')]
       IN /\ chats' = chats
          /\ e.origin \notin e.to
          /\ e.to = {t \in SocketIds \ {e.origin} : Open(t) /\ e.chatId \in socks[t].rooms}]_vars

\* s1, a member of the room of c2, sent a typing status that went to s2 only
C32_Witness ==
  /\ \E i \in 1..Len(events) :
       /\ events[i].type = "user_typing" /\ events[i].origin = "s1"
       /\ events[i].chatId = "c2" /\ events[i].to = {"s2"}
  /\ "c2" \in socks["s1"].rooms
  /\ Len(chats["c2"].messages) = 1


\* the stored messages of this sender, over all chats
StoredOf(sender) ==
  UNION {{<<c, i>> : i \in {j \in 1..Len(chats[c].messages) :
                                  chats[c].messages[j].sender = sender}} : c \in ChatIds}

\* C33: the stored user messages are at most as many as the message events
\* that were accepted, the stored AI messages at most as many as the replies
\* that were generated, and no step, a disconnect of a connection included,
\* takes a stored message away
C33_AppendAtMostOnce ==
  /\ [](/\ Cardinality(StoredOf("user")) <=
             Cardinality({p \in ProcIds : procs[p].op = "message" /\ procs[p].phase # "none"})
        /\ Cardinality(StoredOf("ai")) <=
             Cardinality({p \in ProcIds : procs[p].op = "message" /\ procs[p].ai = "ok"}))
  /\ [][\A c \in ChatIds : IsPrefix(chats[c].messages, chats'[c].messages)]_vars

\* the handler stored its two messages and ended after both connections of
\* the room had closed
C33_Witness ==
  /\ procs["p1"].op = "message" /\ procs["p1"].pc = "done"
  /\ procs["p1"].ures = "ok" /\ procs["p1"].ares = "ok"
  /\ \A s \in SocketIds : socks[s].state = "closed"
  /\ Len(chats["c1"].messages) = 2
  /\ chats["c1"].messages[1].sender = "user" /\ chats["c1"].messages[2].sender = "ai"


\* C34: a step of a call on one chat leaves every other chat and the members
\* of its room as they were, and while the AI call of a message of one chat
\* is in flight every step of a call on another chat can be taken
C34_ChatsIndependent ==
  /\ [][\A p \in ProcIds : \A b \in ChatIds :
          (procs'[p] # procs[p] /\ procs'[p].chatId # b) =>
             /\ chats'[b] = chats[b]
             /\ \A s \in SocketIds : (b \in socks'[s].rooms) <=> (b \in socks[s].rooms)]_vars
  /\ [](\A p, q \in ProcIds :
          (procs[p].pc = "ai_call" /\ procs[q].chatId # procs[p].chatId) =>
             /\ procs[q].pc = "msg_lookup" => ENABLED MessageLookup(q, TRUE)
             /\ procs[q].pc = "add_find" => ENABLED AddFind(q, TRUE)
             /\ procs[q].pc = "add_msg" => ENABLED AddMsg(q)
             /\ procs[q].pc = "add_save" => ENABLED AddSave(q, TRUE)
             /\ procs[q].pc = "ai_call" => ENABLED AiCall(q, "ok"))

\* the message of c2 was stored, answered and its answer stored while the AI
\* call of the message of c1 was in flight
C34_Witness ==
  /\ procs["p1"].pc = "ai_call" /\ procs["p1"].chatId = "c1"
  /\ procs["p2"].pc = "done" /\ procs["p2"].chatId = "c2"
  /\ procs["p2"].ures = "ok" /\ procs["p2"].ares = "ok"
  /\ Len(chats["c1"].messages) = 1
  /\ Len(chats["c2"].messages) = 2
  /\ socks["s1"].rooms = {"c1"} /\ socks["s2"].rooms = {"c2"}


\* C35: the context that buildContextForAI made for a chat has its lines in
\* the order name, interests, goals, preferences, session context, recent
\* conversation; a section is there exactly when the chat has something for
\* it; the session context has a line for each entry; and the lines after
\* 'Recent conversation:' are sender and text of the last min(5, n) stored
\* messages, in stored order
C35_ContextSections ==
  \A p \in ProcIds :
    (procs[p].op = "generate" /\ procs[p].pc \in {"gen_model", "done"}
       /\ procs[p].chatId \in ChatIds) =>
      LET ctx == procs[p].prompt.context
          chat == chats[procs[p].chatId]
          n == Len(chat.messages)
          k == IF n < 5 THEN n ELSE 5
          Rank(line) ==
            CASE line[1] = "User's name" -> 1
              [] line[1] = "User's interests" -> 2
              [] line[1] = "User's goals" -> 3
              [] line[1] = "User's preferences" -> 4
              [] line[1] = "Session context:" -> 5
              [] line[1] = "-" -> 6
              [] line[1] = "" -> 7
              [] line[1] = "Recent conversation:" -> 8
              [] OTHER -> 9
          Has(head) == \E i \in 1..Len(ctx) : ctx[i][1] = head
          Count(head) == Cardinality({i \in 1..Len(ctx) : ctx[i][1] = head})
      IN /\ \A i, j \in 1..Len(ctx) : i < j => Rank(ctx[i]) <= Rank(ctx[j])
         /\ \A h \in {"User's name", "User's interests", "User's goals",
                      "User's preferences", "Session context:", "Recent conversation:"} :
              Count(h) <= 1
         /\ Has("User's name") <=> chat.userInfo.name # ""
         /\ Has("User's interests") <=> chat.userInfo.interests # <<>>
         /\ Has("User's goals") <=> chat.userInfo.goals # <<>>
         /\ Has("User's preferences") <=> chat.userInfo.preferences # <<>>
         /\ Has("Session context:") <=> chat.sessionContext # <<>>
         /\ Count("-") = Len(chat.sessionContext)
         /\ Has("Recent conversation:") <=> n > 0
         /\ Count("user") + Count("ai") = k
         /\ \A i \in 1..k :
              ctx[Len(ctx) - k + i] =
                <<chat.messages[n - k + i].sender, chat.messages[n - k + i].text>>

\* the chat of Sam, who likes chess, with six messages and no session
\* context: the lines of name and interests, then the last five messages
C35_Witness ==
  /\ procs["p1"].op = "generate" /\ procs["p1"].pc = "done" /\ procs["p1"].chatId = "c1"
  /\ chats["c1"].userInfo = [NoUserInfo EXCEPT !.name = "Sam", !.interests = <<"chess">>]
  /\ chats["c1"].sessionContext = <<>>
  /\ Len(chats["c1"].messages) = 6
  /\ Len(procs["p1"].prompt.context) = 9
  /\ procs["p1"].prompt.context[1] = <<"User's name", "Sam">>
  /\ procs["p1"].prompt.context[4] = <<"Recent conversation:">>
  /\ procs["p1"].prompt.context[5] = <<"ai", <<"h", "h">>>>


\* C36: the step in which a clearSessionContext call gets the answer of its
\* save leaves the session context of its chat empty, and no step of such a
\* call changes the messages, the facts about the user, the title or the
\* isActive of its chat, or anything of another chat
C36_ClearOnlySessionContext ==
  [][\A p \in ProcIds :
       (procs'[p] # procs[p] /\ procs'[p].op = "clear") =>
          LET c == procs'[p].chatId
          IN /\ procs'[p].res = "ok" => chats'[c].sessionContext = <<>>
             /\ procs'[p].res # "ok" => chats'[c].sessionContext = chats[c].sessionContext
             /\ chats'[c].messages = chats[c].messages
             /\ chats'[c].userInfo = chats[c].userInfo
             /\ chats'[c].title = chats[c].title
             /\ chats'[c].isActive = chats[c].isActive
             /\ \A b \in ChatIds \ {c} : chats'[b] = chats[b]]_vars

\* the context of c2 was cleared after an entry had been stored in it, and
\* the entry of c1 is still there
C36_Witness ==
  /\ procs["p1"].op = "storeContext" /\ procs["p1"].res = "ok" /\ procs["p1"].chatId = "c2"
  /\ procs["p2"].op = "storeContext" /\ procs["p2"].res = "ok" /\ procs["p2"].chatId = "c1"
  /\ procs["p3"].op = "clear" /\ procs["p3"].res = "ok" /\ procs["p3"].chatId = "c2"
  /\ chats["c2"].sessionContext = <<>>
  /\ chats["c1"].sessionContext = << <<"k", "v">> >>
  /\ chats["c2"].userInfo.name = "Sam"


\* C37: a step that appends a message to a chat finds the chat active
C37_NoAppendToInactive ==
  [][\A c \in ChatIds :
       Len(chats'[c].messages) > Len(chats[c].messages) => chats[c].isActive]_vars


\* C38: when an updateChatTitle and an addMessageToChat on one chat have both
\* succeeded, the chat stores the title of the one and the message of the
\* other (every updateChatTitle of the runs sets the same title)
C38_TitleAndMessageBothKept ==
  \A p, q \in ProcIds :
    (/\ procs[p].op = "title" /\ procs[p].pc = "done" /\ procs[p].res = "ok"
     /\ procs[q].op = "add" /\ procs[q].pc = "done" /\ procs[q].res = "ok"
     /\ procs[p].chatId = procs[q].chatId) =>
       /\ chats[procs[p].chatId].title = Trim(procs[p].newTitle)
       /\ Holds(chats[procs[p].chatId].messages, procs[q].msg)

\* the two calls loaded the chat before either saved: the append saw the old
\* title, the title update saw no message, and the chat has the new title and
\* the message
C38_Witness ==
  /\ procs["p1"].op = "add" /\ procs["p1"].pc = "done" /\ procs["p1"].res = "ok"
  /\ procs["p2"].op = "title" /\ procs["p2"].pc = "done" /\ procs["p2"].res = "ok"
  /\ procs["p3"].pc = "idle"
  /\ procs["p1"].seen = DefaultTitle(<<"health">>)
  /\ procs["p2"].base = 0 /\ procs["p1"].pos = 1
  /\ chats["c1"].title = <<"T">>
  /\ Len(chats["c1"].messages) = 1 /\ chats["c1"].messages[1] = procs["p1"].msg


\* C39: every message event that a handler took up leads to the end of the
\* handler with an AI message broadcast or an error emitted by it
C39_MessageGetsOutcome ==
  \A p \in ProcIds :
    (procs[p].op = "message") ~>
      (/\ procs[p].pc = "done"
       /\ \E i \in 1..Len(events) :
            /\ events[i].by = p
            /\ \/ events[i].type = "error"
               \/ events[i].type = "message" /\ events[i].msg.sender = "ai")

\* the store failed both appends of the handler and the AI message was
\* broadcast; the handler emitted no error
C39_Witness ==
  /\ procs["p1"].op = "message" /\ procs["p1"].pc = "done"
  /\ procs["p1"].ures = "error" /\ procs["p1"].ares = "error"
  /\ \E i \in 1..Len(events) :
       events[i].by = "p1" /\ events[i].type = "message" /\ events[i].msg.sender = "ai"
  /\ \A i \in 1..Len(events) : events[i].type # "error"


\* C40: a connection that the handshake admitted, open or closed since, is a
\* connection of an active user of the users collection
C40_AdmittedUserIsActive ==
  \A s \in SocketIds :
    socks[s].state \in {"open", "closed"} => socks[s].userId \in ActiveUsers

====
